---- MODULE Spec2Model ----
(***************************************************************************)
(* The chat agent of worker/agent.ts (AIAgent) with its three tool         *)
(* adapters (getWeather, getWiki, getISS).                                 *)
(*                                                                         *)
(* One session (one Durable Object).  Every inbound frame starts a handler *)
(* (onMessage); a handler runs without interruption up to its next await   *)
(* of an I/O call (ai.run, fetch, reader.read) and is resumed by a later   *)
(* step, so handlers of several frames may be in flight at once.  The sql  *)
(* statements and setState do no I/O: an insert and the state update that  *)
(* follows it happen in the same step.                                     *)
(***************************************************************************)
EXTENDS Integers, Sequences, FiniteSets, TLC

(* ------------------------------ bounds --------------------------------- *)
MaxFrames == 2
MaxClock == 1
MaxBefore == 3      \* turns of a long session before its tool turn
MaxToolTurns == 1   \* tool turns of a long session
MaxShort == 3       \* by how many turns the end of a long session may fall short of the window

(* ------------------------- program constants --------------------------- *)
DAY == 86400000
WINDOW == 40
DEFAULT_MODEL == "@cf/meta/llama-4-scout-17b-16e-instruct"

(* --------------------------- JavaScript values ------------------------- *)
(* A string is a sequence of tokens; " " is a whitespace token.            *)
Undef == [t |-> "undefined"]
Null == [t |-> "null"]
NaN == [t |-> "NaN"]
True == [t |-> "boolean", b |-> TRUE]
False == [t |-> "boolean", b |-> FALSE]
Str(s) == [t |-> "string", s |-> s]
Num(n) == [t |-> "number", n |-> n]
\* a string whose characters are the JSON text of j
JsonStr(j) == [t |-> "string", json |-> j]
Obj(f) == [t |-> "object", f |-> f]
Arr(a) == [t |-> "array", a |-> a]

IsString(v) == v.t = "string"
IsNumber(v) == v.t \in {"number", "NaN"}
IsRecord(v) == v.t \in {"object", "array"}
Nullish(v) == v.t \in {"undefined", "null"}

Truthy(v) ==
  CASE v.t \in {"undefined", "null", "NaN"} -> FALSE
    [] v.t = "boolean" -> v.b
    [] v.t = "string" -> IF "json" \in DOMAIN v THEN TRUE ELSE v.s # <<>>
    [] v.t = "number" -> v.n # 0
    [] OTHER -> TRUE

\* v[k] for a value that is not null or undefined (those throw a TypeError)
Prop(v, k) ==
  IF v.t = "object" /\ k \in DOMAIN v.f THEN v.f[k] ELSE Undef

IsSpace(c) == c \in {" ", "\r", "\n"}

\* a variant of Trim that leaves the string as it is
Untrimmed(s) == s

Last(s) == s[Len(s)]
Front(s) == SubSeq(s, 1, Len(s) - 1)

RECURSIVE TrimStart(_)
TrimStart(s) ==
  IF s # <<>> /\ IsSpace(Head(s)) THEN TrimStart(Tail(s)) ELSE s

RECURSIVE TrimEnd(_)
TrimEnd(s) ==
  IF s # <<>> /\ IsSpace(s[Len(s)]) THEN TrimEnd(SubSeq(s, 1, Len(s) - 1)) ELSE s

Trim(s) == TrimEnd(TrimStart(s))

(* JSON.stringify / JSON.parse.  A string holding a JSON text is the       *)
(* record [json |-> j]; a plain string is [text |-> s].  Serialising drops *)
(* the undefined members of an object, and writes NaN and the undefined    *)
(* elements of an array as null.                                           *)
Text(s) == [text |-> s]

RECURSIVE ToJson(_)
ToJson(v) ==
  CASE v.t = "object" ->
         Obj([k \in {x \in DOMAIN v.f : v.f[x] # Undef} |-> ToJson(v.f[k])])
    [] v.t = "array" ->
         Arr([i \in DOMAIN v.a |-> IF v.a[i] = Undef THEN Null ELSE ToJson(v.a[i])])
    [] v.t = "NaN" -> Null
    [] OTHER -> v

JSONstringify(v) == [json |-> ToJson(v)]

IsJsonText(c) == "json" \in DOMAIN c

JSONparse(c) == c.json

(* ------------------------------ the session ---------------------------- *)
Handlers == 1..MaxFrames

VARIABLES
  state,      \* this.state: [model, messages, createdAt, expiresAt]
  db,         \* the rows of table messages, in insertion (rowid) order
  now,        \* Date.now()
  arrived,    \* number of inbound frames received so far
  pc,         \* pc[h]: where the handler of frame h is suspended
  loc,        \* loc[h]: the local variables of handler h
  trace,      \* trace[h]: what handler h did so far (rows, frames, calls), in order
  outcome,    \* outcome[h]: how handler h ended
  lastReady,  \* the ready frame sent by the latest step, if that step was a connect
  scope       \* what the run explores: one turn in every environment, or a session

vars == <<state, db, now, arrived, pc, loc, trace, outcome, lastReady, scope>>

Msg(role, content, ts) == [role |-> role, content |-> content, ts |-> ts]

\* AIAgent.initialState
initialState(t) ==
  [model |-> Str(<<DEFAULT_MODEL>>), messages |-> <<>>, createdAt |-> t, expiresAt |-> t + DAY]

NoLocals ==
  [userText |-> <<>>, history |-> <<>>, tool |-> "none", args |-> Undef,
   timeout |-> FALSE, units |-> "metric", lat |-> Undef, lon |-> Undef,
   name |-> <<>>, region |-> Undef, country |-> Undef,
   query |-> <<>>, lang |-> <<>>, title |-> <<>>,
   full |-> <<>>, buffer |-> <<>>, rest |-> <<>>]

NoReady == [sent |-> FALSE, messages |-> <<>>]

(* A run of scope "turn" is one inbound frame, the environment answering   *)
(* in every way listed under inputs; a run of scope "session" is MaxFrames *)
(* frames, the environment answering in one way per outcome of a call.     *)
Scopes == {"turn", "session"}
FrameBudget == IF scope = "turn" THEN 1 ELSE MaxFrames
Drawn(all, few) == IF scope = "turn" THEN all ELSE few

Init ==
  /\ state = initialState(0)
  /\ db = <<>>
  /\ now = 0
  /\ arrived = 0
  /\ pc = [h \in Handlers |-> "idle"]
  /\ loc = [h \in Handlers |-> NoLocals]
  /\ trace = [h \in Handlers |-> <<>>]
  /\ outcome = [h \in Handlers |-> "none"]
  /\ lastReady = NoReady
  /\ scope \in Scopes

(* The effects of a handler between two awaits are applied in program      *)
(* order to m = [state, db, tr], tr being the handler's trace.             *)
Machine(h) == [state |-> state, db |-> db, tr |-> trace[h]]

\* this.sql`INSERT INTO messages (role, content, ts) VALUES (...)`
SqlInsert(m, role, content, ts) ==
  [m EXCEPT !.db = Append(@, Msg(role, content, ts)),
            !.tr = Append(@, [k |-> "row", role |-> role, content |-> content, ts |-> ts])]

\* a variant of AppendMessage that puts the row first: [row, ...this.state.messages]
AppendMessageFirst(m, row) ==
  [m EXCEPT !.state = [@ EXCEPT !.messages = <<row>> \o @, !.expiresAt = now + DAY]]

\* a variant of AppendMessage that keeps one row per role: the new row takes the place
\* of the earlier rows of its role
AppendMessageLatest(m, row) ==
  [m EXCEPT !.state = [@ EXCEPT !.messages = Append(SelectSeq(@, LAMBDA r : r.role # row.role), row),
                                !.expiresAt = now + DAY]]

\* this.setState({...this.state, messages: [...this.state.messages, row], expiresAt: Date.now() + DAY})
AppendMessage(m, row) ==
  [m EXCEPT !.state = [@ EXCEPT !.messages = Append(@, row), !.expiresAt = now + DAY]]

\* conn.send(JSON.stringify(frame))
Send(m, frame) == [m EXCEPT !.tr = Append(@, frame)]

Delta(text) == [k |-> "frame", type |-> "delta", text |-> text]
Done == [k |-> "frame", type |-> "done"]
Cleared == [k |-> "frame", type |-> "cleared"]
ToolEvent(tool, status, message) ==
  [k |-> "frame", type |-> "tool", tool |-> tool, status |-> status, message |-> message]
ToolDone(tool, message, res) ==
  [k |-> "frame", type |-> "tool", tool |-> tool, status |-> "done", message |-> message,
   result |-> ToJson(res)]

\* what a fetch of getWiki settled with, kept for the properties
Got(m, what, r) == [m EXCEPT !.tr = Append(@, [k |-> "got", what |-> what, r |-> r])]

\* a variant of Call that makes the request a second time
CallTwice(m, what, request) ==
  [m EXCEPT !.tr = @ \o <<[k |-> "call", what |-> what, request |-> request],
                           [k |-> "call", what |-> what, request |-> request]>>]

\* an await of an I/O call: ai.run, fetch
Call(m, what, request) == [m EXCEPT !.tr = Append(@, [k |-> "call", what |-> what, request |-> request])]

saveAssistant(m, text) ==
  AppendMessage(SqlInsert(m, "assistant", Text(text), now), Msg("assistant", Text(text), now))

\* the handler h goes on from m to position p with locals l
Commit(h, m, p, l, o) ==
  /\ state' = m.state
  /\ db' = m.db
  /\ trace' = [trace EXCEPT ![h] = m.tr]
  /\ pc' = [pc EXCEPT ![h] = p]
  /\ loc' = [loc EXCEPT ![h] = l]
  /\ outcome' = [outcome EXCEPT ![h] = o]
  /\ lastReady' = NoReady
  /\ scope' = scope

\* the handler h returns (o: how the turn ended); its locals are dead
Return(h, m, o) == Commit(h, m, "done", NoLocals, o)

\* an exception leaves onMessage
Throw(h, m) == Commit(h, m, "crashed", NoLocals, "threw")

(* ------------------------------ the planner ---------------------------- *)
ToolNames == {<<"getWeather">>, <<"getWiki">>, <<"getISS">>}
ToolOf(name) == name[1]

NoPlan == [tool |-> "none", args |-> Undef]
Plan(tool, args) == [tool |-> tool, args |-> args]

\* v?.k
OptProp(v, k) == IF Nullish(v) THEN Undef ELSE Prop(v, k)

\* a variant of parseArgs where a parse failure gives null
parseArgsOrNull(rawArgs) ==
  IF IsString(rawArgs)
    THEN IF "json" \in DOMAIN rawArgs THEN rawArgs.json ELSE Null
    ELSE rawArgs

\* lines 390-399: a string payload is parsed, a parse failure gives {}
parseArgs(rawArgs) ==
  IF IsString(rawArgs)
    THEN IF "json" \in DOMAIN rawArgs THEN rawArgs.json ELSE Obj(<<>>)
    ELSE rawArgs

\* a variant of wikiArgsValid that takes any non-empty query, blank or not
wikiArgsValidUntrimmed(parsedArgs) ==
  /\ Truthy(parsedArgs)
  /\ IsRecord(parsedArgs)
  /\ LET query == Prop(parsedArgs, "query")
     IN IsString(query) /\ "s" \in DOMAIN query /\ query.s # <<>>

\* lines 407-423
wikiArgsValid(parsedArgs) ==
  /\ Truthy(parsedArgs)
  /\ IsRecord(parsedArgs)
  /\ LET query == Prop(parsedArgs, "query")
     IN IsString(query) /\ "s" \in DOMAIN query /\ Trim(query.s) # <<>>

\* a variant of #planWithAllTools that takes the first proposal naming a known tool
planWithFirstKnownTool(out) ==
  IF out.kind = "throw" THEN NoPlan
  ELSE IF ~Truthy(out.v) \/ ~IsRecord(out.v) THEN NoPlan
  ELSE
    LET tc == Prop(out.v, "tool_calls")
        calls == IF tc.t = "array" THEN tc.a ELSE <<>>
    IN IF calls = <<>> THEN NoPlan
       ELSE
         LET known == {i \in DOMAIN calls :
                         LET n == OptProp(OptProp(calls[i], "function"), "name")
                         IN IsString(n) /\ "s" \in DOMAIN n /\ n.s \in ToolNames}
             call == IF known = {} THEN calls[1]
                     ELSE calls[CHOOSE i \in known : \A k \in known : i <= k]
             toolName == OptProp(OptProp(call, "function"), "name")
             rawArgs == OptProp(OptProp(call, "function"), "arguments")
             parsedArgs == parseArgs(rawArgs)
         IN IF ~Truthy(toolName) \/ ~IsString(toolName) \/ "s" \notin DOMAIN toolName
               \/ toolName.s \notin ToolNames
              THEN NoPlan
            \* line 387: JSON.stringify(undefined).slice throws, caught at line 432
            ELSE IF rawArgs = Undef THEN NoPlan
            ELSE IF toolName.s = <<"getWeather">> THEN Plan("getWeather", parsedArgs)
            ELSE IF toolName.s = <<"getWiki">>
              THEN IF wikiArgsValid(parsedArgs) THEN Plan("getWiki", parsedArgs) ELSE NoPlan
            ELSE Plan("getISS", Obj(<<>>))

\* #planWithAllTools from the value ai.run resolved to (lines 360-431);
\* out.kind = "throw": ai.run rejected (line 432)
planWithAllTools(out) ==
  IF out.kind = "throw" THEN NoPlan
  ELSE IF ~Truthy(out.v) \/ ~IsRecord(out.v) THEN NoPlan
  ELSE
    LET tc == Prop(out.v, "tool_calls")
        calls == IF tc.t = "array" THEN tc.a ELSE <<>>
    IN IF calls = <<>> THEN NoPlan
       ELSE
         LET call == calls[1]
             toolName == OptProp(OptProp(call, "function"), "name")
             rawArgs == OptProp(OptProp(call, "function"), "arguments")
             parsedArgs == parseArgs(rawArgs)
         IN IF ~Truthy(toolName) \/ ~IsString(toolName) \/ "s" \notin DOMAIN toolName
               \/ toolName.s \notin ToolNames
              THEN NoPlan
            \* line 387: JSON.stringify(undefined).slice throws, caught at line 432
            ELSE IF rawArgs = Undef THEN NoPlan
            ELSE IF toolName.s = <<"getWeather">> THEN Plan("getWeather", parsedArgs)
            ELSE IF toolName.s = <<"getWiki">>
              THEN IF wikiArgsValid(parsedArgs) THEN Plan("getWiki", parsedArgs) ELSE NoPlan
            ELSE Plan("getISS", Obj(<<>>))

(* ---------------------------- tool adapters ---------------------------- *)
(* What a fetch gives: [kind |-> "throw"] (the promise rejects), or a      *)
(* response [kind |-> "http", status, parses, body]: r.json() rejects      *)
(* unless parses, and resolves to body otherwise.                          *)
Rejected == [kind |-> "throw"]
Http(status, parses, body) == [kind |-> "http", status |-> status, parses |-> parses, body |-> body]
HttpOk(r) == r.status >= 200 /\ r.status <= 299

Fail(error) == Obj([ok |-> False, error |-> Str(error)])
IsOk(res) == res.f.ok = True

NumberOr(v, d) == IF v.t = "number" THEN v ELSE d
StringOr(v, d) == IF IsString(v) THEN v ELSE d

\* getISS, from what fetch gave
getISS(r) ==
  IF r.kind = "throw" THEN Fail(<<"Network error">>)
  ELSE IF ~HttpOk(r) THEN Fail(<<"ISS API failed (", ToString(r.status), ")">>)
  ELSE IF ~r.parses \/ Nullish(r.body) THEN Fail(<<"Network error">>)
  ELSE
    LET j == r.body
        lat == NumberOr(Prop(j, "latitude"), Undef)
        lon == NumberOr(Prop(j, "longitude"), Undef)
    IN IF lat.t # "number" \/ lon.t # "number" THEN Fail(<<"Malformed response">>)
       ELSE Obj([ok |-> True, lat |-> lat, lon |-> lon,
                 altitude_km |-> NumberOr(Prop(j, "altitude"), Undef),
                 velocity_kmh |-> NumberOr(Prop(j, "velocity"), Undef),
                 visibility |-> StringOr(Prop(j, "visibility"), Undef),
                 ts |-> Num(now)])

(* getWiki *)
Letters == {"e", "n", "f", "r"}
toLowerCase(s) ==
  [i \in DOMAIN s |-> CASE s[i] = "E" -> "e" [] s[i] = "N" -> "n" [] s[i] = "F" -> "f"
                         [] s[i] = "R" -> "r" [] OTHER -> s[i]]

\* /^[a-z]{2}(-[a-z]{2})?$/i
langValid(lang) ==
  LET l == toLowerCase(lang)
  IN \/ Len(l) = 2 /\ l[1] \in Letters /\ l[2] \in Letters
     \/ Len(l) = 5 /\ l[1] \in Letters /\ l[2] \in Letters /\ l[3] = "-"
                   /\ l[4] \in Letters /\ l[5] \in Letters

\* (args.query || "").trim()
wikiQuery(args) ==
  LET q == Prop(args, "query") IN IF Truthy(q) THEN Trim(q.s) ELSE <<>>

\* (args.lang || "en"): toLowerCase exists on strings only
wikiLangThrows(args) ==
  LET l == Prop(args, "lang") IN Truthy(l) /\ ~IsString(l)

wikiLang(args) ==
  LET l == Prop(args, "lang") IN IF Truthy(l) THEN toLowerCase(l.s) ELSE <<"e", "n">>

\* parseOpensearchTopTitle
parseOpensearchTopTitle(json) ==
  IF json.t # "array" \/ Len(json.a) < 2 THEN Undef
  ELSE LET titles == json.a[2]
       IN IF titles.t # "array" \/ Len(titles.a) = 0 THEN Undef
          ELSE StringOr(titles.a[1], Undef)

\* a variant of wikiTitle without the fallback to the query
wikiTitleFound(query, r) ==
  IF r.kind = "throw" \/ ~HttpOk(r) \/ ~r.parses THEN <<>>
  ELSE LET top == parseOpensearchTopTitle(r.body)
       IN IF Truthy(top) THEN top.s ELSE <<>>

\* the title the summary is fetched for, from what the search fetch gave (lines 111-130)
wikiTitle(query, r) ==
  IF r.kind = "throw" THEN query
  ELSE IF ~HttpOk(r) THEN query
  ELSE IF ~r.parses THEN query
  ELSE LET top == parseOpensearchTopTitle(r.body)
       IN IF Truthy(top) THEN top.s ELSE query

\* getString(obj, key)
getString(obj, key) ==
  IF IsRecord(obj) /\ IsString(Prop(obj, key)) THEN Prop(obj, key) ELSE Undef

\* extractPageUrl
extractPageUrl(json, lang, title) ==
  LET urls == Prop(json, "content_urls")
      page == IF IsRecord(json) /\ IsRecord(urls) /\ IsRecord(Prop(urls, "desktop"))
                THEN Prop(Prop(urls, "desktop"), "page") ELSE Undef
  IN IF IsString(page) THEN page
     ELSE LET slug == [i \in DOMAIN title |-> IF IsSpace(title[i]) THEN "_" ELSE title[i]]
          IN Str(<<"https://">> \o lang \o <<".wikipedia.org/wiki/">> \o slug)

\* extractThumb
extractThumb(json) ==
  IF IsRecord(json) /\ IsRecord(Prop(json, "thumbnail"))
       /\ IsString(Prop(Prop(json, "thumbnail"), "source"))
    THEN Prop(Prop(json, "thumbnail"), "source") ELSE Undef

\* the result of getWiki, from what the summary fetch gave (lines 135-168)
wikiResult(lang, title, r) ==
  IF r.kind = "throw" THEN Fail(<<"Network error.">>)
  ELSE IF r.status = 404 THEN Fail(<<"No page found.">>)
  ELSE IF ~HttpOk(r) THEN Fail(<<"Summary failed (", ToString(r.status), ")">>)
  ELSE IF ~r.parses THEN Fail(<<"Network error.">>)
  ELSE
    LET j == r.body
        t == getString(j, "title")
        e == getString(j, "extract")
        pageTitle == IF Truthy(t) THEN t.s ELSE title
        extract == IF Truthy(e) THEN e.s ELSE <<>>
    IN IF extract = <<>> THEN Fail(<<"No summary available.">>)
       ELSE Obj([ok |-> True, title |-> Str(pageTitle),
                 description |-> getString(j, "description"),
                 extract |-> Str(extract),
                 thumbnailUrl |-> extractThumb(j),
                 pageUrl |-> extractPageUrl(j, lang, pageTitle),
                 lang |-> Str(lang)])

(* getWeather.  Temperatures and precipitation probabilities are held in   *)
(* tenths: Num(215) is 21.5.                                               *)
At(a, i) == IF i \in DOMAIN a THEN a[i] ELSE Undef
ArrayOr(v) == IF v.t = "array" THEN v.a ELSE <<>>
\* v ?? d
Coalesce(v, d) == IF Nullish(v) THEN d ELSE v
\* Number(v), for the values the responses hold
Number(v) ==
  CASE v.t = "number" -> v
    [] v.t = "null" -> Num(0)
    [] OTHER -> NaN
\* String(v)
String(v) == IF IsString(v) THEN v.s ELSE IF v.t = "number" THEN <<ToString(v.n)>> ELSE <<v.t>>

\* geocode throws on a rejected fetch, a non-2xx status, an unreadable body, no result
geocodeThrows(r) ==
  \/ r.kind = "throw"
  \/ ~HttpOk(r)
  \/ ~r.parses
  \/ Nullish(r.body)
  \/ ~Truthy(At(ArrayOr(Prop(r.body, "results")), 1))

\* geocode's value (lines 57-65)
geocode(name, r) ==
  LET hit == At(ArrayOr(Prop(r.body, "results")), 1)
  IN [lat |-> Number(Prop(hit, "latitude")),
      lon |-> Number(Prop(hit, "longitude")),
      name |-> IF Truthy(Prop(hit, "name")) THEN String(Prop(hit, "name")) ELSE name,
      region |-> IF Truthy(Prop(hit, "admin1")) THEN Str(String(Prop(hit, "admin1"))) ELSE Undef,
      country |-> IF Truthy(Prop(hit, "country")) THEN Str(String(Prop(hit, "country"))) ELSE Undef]

RECURSIVE FilterDays(_)
FilterDays(days) ==
  IF days = <<>> THEN <<>>
  ELSE IF Truthy(Head(days).f.date) THEN <<Head(days)>> \o FilterDays(Tail(days))
  ELSE FilterDays(Tail(days))

\* lines 104-119
forecastDays(j) ==
  LET d == Coalesce(Prop(j, "daily"), Obj(<<>>))
      dates == ArrayOr(Prop(d, "time"))
      tmax == ArrayOr(Prop(d, "temperature_2m_max"))
      tmin == ArrayOr(Prop(d, "temperature_2m_min"))
      pop == ArrayOr(Prop(d, "precipitation_probability_max"))
      codes == ArrayOr(Prop(d, "weathercode"))
  IN FilterDays([i \in DOMAIN dates |->
       Obj([date |-> dates[i],
            tMax |-> Number(Coalesce(At(tmax, i), NaN)),
            tMin |-> Number(Coalesce(At(tmin, i), NaN)),
            pop |-> Number(Coalesce(At(pop, i), Num(0))),
            code |-> IF At(codes, i).t = "number" THEN At(codes, i) ELSE Undef])])

\* `${lat.toFixed(3)}, ${lon.toFixed(3)}`
coordsName(lat, lon) == String(lat) \o <<", ">> \o String(lon)

\* the result of getWeather, from its locals l and what the forecast fetch gave (lines 100-137)
weatherResult(l, r) ==
  IF r.kind = "throw" \/ ~HttpOk(r) \/ ~r.parses \/ Nullish(r.body)
    THEN Fail(<<"Failed to fetch forecast.">>)
  ELSE
    LET j == r.body
        tz == IF Truthy(Prop(j, "timezone")) THEN String(Prop(j, "timezone")) ELSE <<"UTC">>
        location == Prop(l.args, "location")
    IN IF l.name = <<>> /\ ~Truthy(location) /\ (~IsNumber(l.lat) \/ ~IsNumber(l.lon))
         THEN Fail(<<"Failed to fetch forecast.">>)
       ELSE
         Obj([ok |-> True,
              place |-> Obj([name |-> IF l.name # <<>> THEN Str(l.name)
                                      ELSE IF Truthy(location) THEN location
                                      ELSE Str(coordsName(l.lat, l.lon)),
                             region |-> l.region, country |-> l.country,
                             timezone |-> Str(tz)]),
              units |-> Obj([temp |-> Str(IF l.units = "imperial" THEN <<"degF">> ELSE <<"degC">>)]),
              daily |-> Arr(forecastDays(j))])

(* ------------------------------ summaries ------------------------------ *)
SNIPPET_MAX == 480
SUMMARY_DAYS == 7

Max(S) == CHOOSE x \in S : \A y \in S : y <= x
Min(S) == CHOOSE x \in S : \A y \in S : x <= y
\* Math.round of a number held in tenths
Round(n) == (n + 5) \div 10

RECURSIVE Join(_, _)
Join(parts, sep) ==
  IF parts = <<>> THEN <<>>
  ELSE IF Len(parts) = 1 THEN Head(parts)
  ELSE Head(parts) \o sep \o Join(Tail(parts), sep)

RECURSIVE FilterTruthy(_)
FilterTruthy(vs) ==
  IF vs = <<>> THEN <<>>
  ELSE IF Truthy(Head(vs)) THEN <<String(Head(vs))>> \o FilterTruthy(Tail(vs))
  ELSE FilterTruthy(Tail(vs))

\* a variant of slice that keeps every element
sliceAll(a, n) == a

\* a.slice(0, n)
slice(a, n) == SubSeq(a, 1, n)

\* a variant of clothingLines that looks at the low before the high
clothingLinesColdFirst(hasHi, hiR, hasLo, loR, maxPop) ==
  IF hasLo /\ loR <= 5
    THEN <<<<"Chilly at times - bring warm layers (and gloves/hat if you get cold easily).">>>>
  ELSE IF hasHi /\ hiR >= 30 THEN <<<<"It'll feel hot - dress light and use sunscreen.">>>>
  ELSE IF hasHi /\ hiR >= 24 /\ maxPop < 400
    THEN <<<<"Warm and mostly dry - shorts and light layers are fine.">>>>
  ELSE IF hasHi /\ hasLo
    THEN IF hiR - loR >= 10 THEN <<<<"Temps swing through the day - pack layers.">>>>
         ELSE <<<<"Mild, steady temps - simple layers should be fine.">>>>
  ELSE <<>>

\* the clothing lines of #summarizeWeatherIntent (lines 552-562): hiR and loR are the
\* rounded bounds (null when hasHi, hasLo are false), maxPop is in tenths of a percent
clothingLines(hasHi, hiR, hasLo, loR, maxPop) ==
  IF hasHi /\ hiR >= 30 THEN <<<<"It'll feel hot - dress light and use sunscreen.">>>>
  ELSE IF hasHi /\ hiR >= 24 /\ maxPop < 400
    THEN <<<<"Warm and mostly dry - shorts and light layers are fine.">>>>
  ELSE IF hasLo /\ loR <= 5
    THEN <<<<"Chilly at times - bring warm layers (and gloves/hat if you get cold easily).">>>>
  ELSE IF hasHi /\ hasLo
    THEN IF hiR - loR >= 10 THEN <<<<"Temps swing through the day - pack layers.">>>>
         ELSE <<<<"Mild, steady temps - simple layers should be fine.">>>>
  ELSE <<>>

\* the rain line of #summarizeWeatherIntent (lines 544-550), maxPop in tenths of a percent
rainLine(maxPop) ==
  IF maxPop >= 700
    THEN <<"Rain is likely (peak chance ~", ToString(Round(maxPop)),
           "%) - pack rain gear (umbrella or waterproof jacket).">>
  ELSE IF maxPop >= 400
    THEN <<"Some showers possible (peak ~", ToString(Round(maxPop)),
           "%) - consider a light rain jacket.">>
  ELSE <<"Low rain risk overall.">>

\* a variant of freezingLines that warns whenever the low is at most zero
freezingLinesWhenCold(hasLo, loR, maxPop) ==
  IF hasLo /\ loR <= 0
    THEN <<<<"Freezing conditions possible with precipitation - use winter shoes/boots.">>>>
  ELSE <<>>

\* the freezing line of #summarizeWeatherIntent (lines 564-566)
freezingLines(hasLo, loR, maxPop) ==
  IF hasLo /\ loR <= 0 /\ maxPop >= 500
    THEN <<<<"Freezing conditions possible with precipitation - use winter shoes/boots.">>>>
  ELSE <<>>

\* #summarizeWeatherIntent
summarizeWeatherIntent(result) ==
  IF ~IsOk(result) THEN <<"I couldn't fetch the weather. Please double-check the location.">>
  ELSE
    LET place == result.f.place.f
        daily == result.f.daily.a
        joined == Join(FilterTruthy(<<place.name, place.region, place.country>>), <<", ">>)
        name == IF joined = <<>> THEN <<"that location">> ELSE joined
        n == IF Len(daily) < SUMMARY_DAYS THEN Len(daily) ELSE SUMMARY_DAYS
        days == slice(daily, n)
        his == {days[i].f.tMax.n : i \in {x \in DOMAIN days : days[x].f.tMax.t = "number"}}
        los == {days[i].f.tMin.n : i \in {x \in DOMAIN days : days[x].f.tMin.t = "number"}}
        pops == {days[i].f.pop.n : i \in {x \in DOMAIN days : days[x].f.pop.t = "number"}}
        hasHi == his # {}
        hasLo == los # {}
        hiR == IF hasHi THEN Round(Max(his)) ELSE 0
        loR == IF hasLo THEN Round(Min(los)) ELSE 0
        maxPop == Max(pops \cup {-10})
        T == result.f.units.f.temp.s
        headline ==
          IF hasHi /\ hasLo
            THEN <<"In ">> \o name \o <<", highs reach ~", ToString(hiR)>> \o T
                   \o <<" and lows dip to ~", ToString(loR)>> \o T \o <<" this week.">>
          ELSE IF hasHi
            THEN <<"In ">> \o name \o <<", highs reach ~", ToString(hiR)>> \o T \o <<" this week.">>
          ELSE IF hasLo
            THEN <<"In ">> \o name \o <<", lows dip to ~", ToString(loR)>> \o T \o <<" this week.">>
          ELSE <<"In ">> \o name \o <<", typical seasonal temperatures this week.">>
        rain == rainLine(maxPop)
        clothing == clothingLines(hasHi, hiR, hasLo, loR, maxPop)
        freezing == freezingLines(hasLo, loR, maxPop)
    IN IF daily = <<>> THEN <<"I couldn't find a daily forecast for ">> \o name \o <<".">>
       ELSE Join(<<headline, rain>> \o clothing \o freezing, <<" ">>)

\* a variant of summarizeWiki that cuts a text that is exactly SNIPPET_MAX long
summarizeWikiCutAtLimit(result) ==
  IF ~IsOk(result) THEN <<"I couldn't fetch Wikipedia: ">> \o result.f.error.s
  ELSE
    LET title == IF Truthy(result.f.title) THEN result.f.title.s ELSE <<"Summary">>
        text == IF Truthy(result.f.extract) THEN Trim(result.f.extract.s) ELSE <<>>
        snippet == IF Len(text) >= SNIPPET_MAX
                     THEN TrimEnd(SubSeq(text, 1, SNIPPET_MAX - 1)) \o <<"...">>
                     ELSE text
    IN IF text = <<>> THEN title \o <<" - summary unavailable.">>
       ELSE title \o <<" - ">> \o snippet

\* #summarizeWiki
summarizeWiki(result) ==
  IF ~IsOk(result) THEN <<"I couldn't fetch Wikipedia: ">> \o result.f.error.s
  ELSE
    LET title == IF Truthy(result.f.title) THEN result.f.title.s ELSE <<"Summary">>
        text == IF Truthy(result.f.extract) THEN Trim(result.f.extract.s) ELSE <<>>
        snippet == IF Len(text) > SNIPPET_MAX
                     THEN TrimEnd(SubSeq(text, 1, SNIPPET_MAX)) \o <<"...">>
                     ELSE text
    IN IF text = <<>> THEN title \o <<" - summary unavailable.">>
       ELSE title \o <<" - ">> \o snippet

\* #summarizeISS
summarizeISS(result) ==
  IF ~IsOk(result) THEN <<"I couldn't fetch the ISS position: ">> \o result.f.error.s
  ELSE
    LET r == result.f
        alt == IF r.altitude_km.t = "number" THEN <<ToString(r.altitude_km.n), " km">> ELSE <<"unknown">>
        vel == IF r.velocity_kmh.t = "number" THEN <<ToString(r.velocity_kmh.n), " km/h">> ELSE <<"unknown">>
        vis == IF Truthy(r.visibility) THEN r.visibility.s ELSE <<"n/a">>
    IN <<"The ISS is currently near ", ToString(r.lat.n), "deg, ", ToString(r.lon.n), "deg at ~">>
         \o alt \o <<", moving ~">> \o vel \o <<" (visibility: ">> \o vis \o <<").">>

(* ---------------------------- the orchestrator ------------------------- *)
Ack(tool) ==
  CASE tool = "getISS" -> <<"Let me check the ISS position...">>
    [] tool = "getWeather" -> <<"Sure - I'll check the forecast using getWeather...">>
    [] tool = "getWiki" -> <<"Let me look that up on Wikipedia...">>

Apology(tool) ==
  CASE tool = "getISS" -> <<"I couldn't fetch the ISS position. Please try again in a moment.">>
    [] tool = "getWeather" -> <<"I couldn't fetch the weather. Please check the location and try again.">>
    [] tool = "getWiki" -> <<"I couldn't fetch Wikipedia. Please refine the topic or try another query.">>

StartedMessage(tool) ==
  CASE tool = "getISS" -> <<"Understanding intent...">>
    [] tool = "getWeather" -> <<"Planning...">>
    [] tool = "getWiki" -> <<"Understanding query...">>

StepMessage(tool) ==
  CASE tool = "getISS" -> <<"Fetching live position...">>
    [] tool = "getWeather" -> <<"Fetching forecast from Open-Meteo...">>
    [] tool = "getWiki" -> <<"Searching Wikipedia...">>

DoneMessage(tool) ==
  CASE tool = "getISS" -> <<"Position updated">>
    [] tool = "getWeather" -> <<"Forecast ready">>
    [] tool = "getWiki" -> <<"Found entry">>

summarize(tool, res) ==
  CASE tool = "getISS" -> summarizeISS(res)
    [] tool = "getWeather" -> summarizeWeatherIntent(res)
    [] tool = "getWiki" -> summarizeWiki(res)

PlannerSystem == <<"You are a helpful assistant with access to tools. ...">>
ChatSystem == <<"You are a friendly, helpful chat agent. ...">>

\* where a handler goes on: machine m, position p, locals l, outcome o
Cont(m, p, l, o) == [m |-> m, p |-> p, l |-> l, o |-> o]
Returns(m, o) == Cont(m, "done", NoLocals, o)
Throws(m) == Cont(m, "crashed", NoLocals, "threw")

\* this.state.messages.slice(-40).filter(isUserOrAssistant).map(({role, content}) => ...)
RECURSIVE FilterUA(_)
FilterUA(ms) ==
  IF ms = <<>> THEN <<>>
  ELSE IF Head(ms).role \in {"user", "assistant"}
    THEN <<[role |-> Head(ms).role, content |-> Head(ms).content]>> \o FilterUA(Tail(ms))
  ELSE FilterUA(Tail(ms))

contextWindow(messages) ==
  LET n == Len(messages)
  IN FilterUA(SubSeq(messages, IF n > WINDOW THEN n - WINDOW + 1 ELSE 1, n))

\* a variant of modelOf that always takes the default model
modelDefault(st) == Str(<<DEFAULT_MODEL>>)

\* this.state.model || DEFAULT_MODEL
modelOf(st) == IF Truthy(st.model) THEN st.model ELSE Str(<<DEFAULT_MODEL>>)

chatMessages(system, history, userText) ==
  <<[role |-> "system", content |-> Text(system)]>> \o history
    \o <<[role |-> "user", content |-> Text(userText)]>>

\* a variant of finishTool that also persists the result of a failed adapter
finishToolKeepingFailure(m, tool, res) ==
  LET content == JSONstringify(Obj([type |-> Str(<<"tool_result">>),
                                    tool |-> Str(<<tool>>), result |-> res]))
      m0 == IF IsOk(res) THEN Send(m, ToolDone(tool, DoneMessage(tool), res))
            ELSE Send(m, ToolEvent(tool, "error", res.f.error.s))
      m1 == AppendMessage(SqlInsert(m0, "tool", content, now), Msg("tool", content, now))
      text == IF IsOk(res) THEN summarize(tool, res) ELSE Apology(tool)
      m2 == Send(Send(m1, Delta(text)), Done)
  IN Returns(saveAssistant(m2, text), IF IsOk(res) THEN "tool_ok" ELSE "tool_fail")

\* the tool branches of onMessage after the adapter returned res
\* (lines 177-206, 223-252, 269-298)
finishTool(m, tool, res) ==
  IF ~IsOk(res)
    THEN LET m1 == Send(m, ToolEvent(tool, "error", res.f.error.s))
             m2 == Send(Send(m1, Delta(Apology(tool))), Done)
         IN Returns(saveAssistant(m2, Apology(tool)), "tool_fail")
    ELSE LET m1 == Send(m, ToolDone(tool, DoneMessage(tool), res))
             content == JSONstringify(Obj([type |-> Str(<<"tool_result">>),
                                           tool |-> Str(<<tool>>), result |-> res]))
             m2 == AppendMessage(SqlInsert(m1, "tool", content, now), Msg("tool", content, now))
             summary == summarize(tool, res)
             m3 == Send(Send(m2, Delta(summary)), Done)
         IN Returns(saveAssistant(m3, summary), "tool_ok")

\* getWeather up to its first fetch (lines 69-100)
startWeather(m, l, args) ==
  IF Nullish(args) THEN finishTool(m, "getWeather", Fail(<<"Failed to fetch forecast.">>))
  ELSE
    LET units == IF Prop(args, "units") = Str(<<"imperial">>) THEN "imperial" ELSE "metric"
        lat == Prop(args, "lat")
        lon == Prop(args, "lon")
        \* setTimeout(() => ctrl.abort(), 12_000), cleared when getWeather returns
        l1 == [l EXCEPT !.units = units, !.lat = lat, !.lon = lon, !.timeout = TRUE]
    IN IF (Nullish(lat) \/ Nullish(lon)) /\ Truthy(Prop(args, "location"))
         THEN Cont(Call(m, "geocode", [url |-> <<"geocode">> \o String(Prop(args, "location"))]),
                   "geocode", l1, "none")
       ELSE IF Nullish(lat) \/ Nullish(lon)
         THEN finishTool(m, "getWeather", Fail(<<"Please provide a city/location I can find.">>))
       ELSE Cont(Call(m, "forecast", [url |-> <<"forecast", units>> \o coordsName(lat, lon)]),
                 "forecast", l1, "none")

\* getWiki up to its first fetch (lines 97-113)
startWiki(m, l, args) ==
  IF wikiLangThrows(args) THEN Throws(m)
  ELSE
    LET query == wikiQuery(args)
        lang == wikiLang(args)
    IN IF query = <<>> THEN finishTool(m, "getWiki", Fail(<<"Missing query.">>))
       ELSE IF ~langValid(lang)
         THEN finishTool(m, "getWiki", Fail(<<"Invalid language: ">> \o lang))
       ELSE Cont(Call(m, "search", [url |-> <<"search">> \o lang \o query]), "search",
                 [l EXCEPT !.query = query, !.lang = lang], "none")

\* a variant of startTool that sends the acknowledgement without persisting it
startToolUnsaved(m, l, plan) ==
  LET tool == plan.tool
      m1 == Send(Send(m, Delta(Ack(tool))), Done)
      m3 == Send(m1, ToolEvent(tool, "started", StartedMessage(tool)))
      m4 == Send(m3, ToolEvent(tool, "step", StepMessage(tool)))
      l1 == [l EXCEPT !.tool = tool, !.args = plan.args]
  IN CASE tool = "getISS" -> Cont(Call(m4, "iss", [url |-> <<"iss">>]), "iss", l1, "none")
       [] tool = "getWeather" -> startWeather(m4, l1, plan.args)
       [] tool = "getWiki" -> startWiki(m4, l1, plan.args)

\* onMessage after the planner returned a tool (lines 165-175, 210-221, 256-267)
startTool(m, l, plan) ==
  LET tool == plan.tool
      m1 == Send(Send(m, Delta(Ack(tool))), Done)
      m2 == saveAssistant(m1, Ack(tool))
      m3 == Send(m2, ToolEvent(tool, "started", StartedMessage(tool)))
      m4 == Send(m3, ToolEvent(tool, "step", StepMessage(tool)))
      l1 == [l EXCEPT !.tool = tool, !.args = plan.args]
  IN CASE tool = "getISS" -> Cont(Call(m4, "iss", [url |-> <<"iss">>]), "iss", l1, "none")
       [] tool = "getWeather" -> startWeather(m4, l1, plan.args)
       [] tool = "getWiki" -> startWiki(m4, l1, plan.args)

\* a variant of startStream that tells the client that planning gave nothing
startStreamWithNotice(m, l) ==
  Cont(Call(Send(m, [k |-> "frame", type |-> "error", message |-> <<"Planning failed">>]),
            "stream", [model |-> modelOf(m.state), stream |-> TRUE, tools |-> {},
                       messages |-> chatMessages(ChatSystem, l.history, l.userText)]),
       "run", l, "none")

\* onMessage after the planner returned no tool, up to ai.run (lines 301-319, 592-596)
startStream(m, l) ==
  Cont(Call(m, "stream", [model |-> modelOf(m.state), stream |-> TRUE, tools |-> {},
                          messages |-> chatMessages(ChatSystem, l.history, l.userText)]),
       "run", l, "none")

(* ------------------------- the streamed completion --------------------- *)
(* The byte stream is a sequence of tokens: "data:", "\n", "\r", " ",       *)
(* "[DONE]", and the characters of a payload.  The JSON text of             *)
(* {"response": "ab"} is "{", "a", "b", "}"; "{", "#", "}" is an object     *)
(* without a response member; "5" is a JSON number.                         *)
StreamError == <<"_(stream error)_">>
NoResponse == <<"[no response]">>
PieceChars == {"a", "b"}

\* buffer.indexOf("\n\n"), 0 when there is none
RECURSIVE IndexOfBlank(_, _)
IndexOfBlank(buffer, i) ==
  IF i >= Len(buffer) THEN 0
  ELSE IF buffer[i] = "\n" /\ buffer[i + 1] = "\n" THEN i
  ELSE IndexOfBlank(buffer, i + 1)

\* frame.replace(/\r\n/g, "\n")
RECURSIVE ReplaceCRLF(_)
ReplaceCRLF(s) ==
  IF s = <<>> THEN <<>>
  ELSE IF Len(s) >= 2 /\ s[1] = "\r" /\ s[2] = "\n" THEN ReplaceCRLF(Tail(s))
  ELSE <<Head(s)>> \o ReplaceCRLF(Tail(s))

\* s.split("\n")
RECURSIVE SplitLines(_, _)
SplitLines(s, cur) ==
  IF s = <<>> THEN <<cur>>
  ELSE IF Head(s) = "\n" THEN <<cur>> \o SplitLines(Tail(s), <<>>)
  ELSE SplitLines(Tail(s), Append(cur, Head(s)))

\* JSON.parse(payload) throws
payloadUnparsable(payload) ==
  LET q == Trim(payload)
  IN ~(\/ q = <<"5">>
       \/ /\ Len(q) >= 2 /\ q[1] = "{" /\ q[Len(q)] = "}"
          /\ \/ SubSeq(q, 2, Len(q) - 1) = <<"#">>
             \/ \A i \in 2..(Len(q) - 1) : q[i] \in PieceChars)

\* typeof json?.response === "string" ? json.response : ""
payloadPiece(payload) ==
  LET q == Trim(payload)
  IN IF q = <<"5">> \/ SubSeq(q, 2, Len(q) - 1) = <<"#">> THEN <<>>
     ELSE SubSeq(q, 2, Len(q) - 1)

\* the text one line of a frame adds to the reply (lines 620-634), <<>> for none
linePiece(line) ==
  IF line = <<>> \/ Head(line) # "data:" THEN <<>>
  ELSE LET payload == TrimStart(Tail(line))
       IN IF payload = <<>> \/ payload = <<"[DONE]">> THEN <<>>
          ELSE IF payloadUnparsable(payload) THEN payload
          ELSE payloadPiece(payload)

RECURSIVE SendPieces(_, _)
SendPieces(m, lines) ==
  IF lines = <<>> THEN m
  ELSE LET piece == linePiece(Head(lines))
       IN SendPieces(IF piece = <<>> THEN m ELSE Send(m, Delta(piece)), Tail(lines))

RECURSIVE Pieces(_)
Pieces(lines) ==
  IF lines = <<>> THEN <<>> ELSE linePiece(Head(lines)) \o Pieces(Tail(lines))

\* the inner while loop (lines 615-636) on machine m and locals l
RECURSIVE drainBuffer(_, _)
drainBuffer(m, l) ==
  LET idx == IndexOfBlank(l.buffer, 1)
  IN IF idx = 0 THEN [m |-> m, l |-> l]
     ELSE LET frame == SubSeq(l.buffer, 1, idx - 1)
              lines == SplitLines(ReplaceCRLF(frame), <<>>)
          IN drainBuffer(SendPieces(m, lines),
                         [l EXCEPT !.buffer = SubSeq(l.buffer, idx + 2, Len(l.buffer)),
                                   !.full = l.full \o Pieces(lines)])

\* stream.getReader() (line 605); the trace keeps the bytes the stream will deliver
Opened(m, bytes) == [m EXCEPT !.tr = Append(@, [k |-> "stream", bytes |-> bytes])]

\* the catch and finally of #streamAssistant, then line 646
streamFailed(m, l) ==
  LET full == IF l.full # <<>> THEN l.full ELSE StreamError
  IN Returns(saveAssistant(Send(m, Done), full), "stream_fail")

\* the loop ended (done), then finally and line 646
streamEnded(m, l) == Returns(saveAssistant(Send(m, Done), l.full), "stream_ok")

\* ai.run resolved to something that is no stream (lines 599-603), then finally
notAStream(m, v) ==
  LET text == IF IsString(v) THEN v.s ELSE NoResponse
  IN Returns(Send(saveAssistant(m, text), Done), "stream_ok")

(* ------------------------------ the client ---------------------------- *)
(* App.tsx keeps the list of chat messages it renders and the pending flag  *)
(* that disables the input.  A chat message is a user or assistant bubble   *)
(* with its text, or a tool card; of a card only its kind and tool are      *)
(* kept.  The handlers are functions from the client state c and the frame  *)
(* received to the next client state.                                       *)
NoMessages == [messages |-> <<>>, pending |-> FALSE]

\* isToolEvent
isToolEvent(e) ==
  /\ e.type = "tool"
  /\ e.tool \in {"getWeather", "getWiki"}
  /\ e.status \in {"started", "step", "done", "error"}

\* isWeatherResult
isWeatherResult(v) ==
  /\ v.t = "object" /\ Prop(v, "ok").t = "boolean"
  /\ IF Prop(v, "ok") = False THEN IsString(Prop(v, "error"))
     ELSE IsRecord(Prop(v, "place")) /\ IsRecord(Prop(v, "units")) /\ Prop(v, "daily").t = "array"

\* isWikiResult
isWikiResult(v) ==
  /\ v.t = "object" /\ Prop(v, "ok").t = "boolean"
  /\ IF Prop(v, "ok") = False THEN IsString(Prop(v, "error"))
     ELSE \A key \in {"title", "extract", "pageUrl", "lang"} : IsString(Prop(v, key))

\* send(text): the user bubble, pending, then client.chat(text)
send(c, text) ==
  [messages |-> Append(c.messages, [role |-> "user", content |-> text]), pending |-> TRUE]

\* client.onDelta
onDelta(c, t) ==
  LET m == c.messages
  IN [pending |-> TRUE,
      messages |-> IF m = <<>> \/ m[Len(m)].role # "assistant"
                     THEN Append(m, [role |-> "assistant", content |-> t])
                     ELSE [m EXCEPT ![Len(m)].content = @ \o t]]

\* client.onDone
onDone(c) == [c EXCEPT !.pending = FALSE]

\* client.onCleared
onCleared(c) == [c EXCEPT !.messages = <<>>]

\* upsertProgressFor: the progress card of the tool is updated in place, or pushed when
\* the list holds none
upsertProgressFor(m, tool) ==
  IF \E i \in DOMAIN m : m[i].role = "tool" /\ m[i].card = "progress" /\ m[i].tool = tool
    THEN m
    ELSE Append(m, [role |-> "tool", card |-> "progress", tool |-> tool])

\* client.onTool
onTool(c, e) ==
  IF ~isToolEvent(e) THEN c
  ELSE
    LET m == c.messages
        valid == IF e.tool = "getWeather" THEN isWeatherResult(e.result)
                 ELSE isWikiResult(e.result)
    IN [c EXCEPT !.messages =
         CASE e.status = "started" ->
                Append(m, [role |-> "tool", card |-> "progress", tool |-> e.tool])
           [] e.status = "done" ->
                LET next == upsertProgressFor(m, e.tool)
                IN IF valid THEN Append(next, [role |-> "tool", card |-> "result", tool |-> e.tool])
                   ELSE next
           [] OTHER -> upsertProgressFor(m, e.tool)]

\* ws.onmessage of wsClient.ts on the frames of tr, in order
RECURSIVE onmessage(_, _)
onmessage(c, tr) ==
  IF tr = <<>> THEN c
  ELSE LET e == Head(tr)
           next == IF e.k # "frame" THEN c
                   ELSE CASE e.type = "delta" -> onDelta(c, e.text)
                          [] e.type = "done" -> onDone(c)
                          [] e.type = "cleared" -> onCleared(c)
                          [] e.type = "tool" -> onTool(c, e)
                          [] OTHER -> c
       IN onmessage(next, Tail(tr))

\* client.onReady of a client that is not hydrated: the chat messages restored from rows
RECURSIVE onReady(_)
onReady(rows) ==
  IF rows = <<>> THEN <<>>
  ELSE LET r == Head(rows)
           payload == IF IsJsonText(r.content) THEN JSONparse(r.content) ELSE Undef
           tool == IF IsRecord(payload) /\ IsString(Prop(payload, "tool"))
                     THEN Prop(payload, "tool").s ELSE <<>>
           cards ==
             IF tool = <<"getWeather">> /\ isWeatherResult(Prop(payload, "result"))
               THEN <<[role |-> "tool", card |-> "progress", tool |-> "getWeather"],
                      [role |-> "tool", card |-> "result", tool |-> "getWeather"]>>
             ELSE IF tool = <<"getWiki">> /\ isWikiResult(Prop(payload, "result"))
               THEN <<[role |-> "tool", card |-> "progress", tool |-> "getWiki"],
                      [role |-> "tool", card |-> "result", tool |-> "getWiki"]>>
             ELSE <<[role |-> "tool", card |-> "generic", tool |-> "none"]>>
       IN (IF r.role = "tool" THEN cards
           ELSE <<[role |-> r.role, content |-> r.content.text]>>)
          \o onReady(Tail(rows))

(* ------------------------------- inputs -------------------------------- *)
ChatTexts ==
  {Undef, Str(<<>>), Str(<<" ">>), Str(<<"q">>), Str(<<" ", "q", " ">>), Num(5),
   Str(<<"tools", "?">>), Str(<<"what", " ", "tools", " ", "have", " ", "you">>)}
ModelIds == {Undef, Str(<<"m2">>)}

ChatFrame(text) == [raw |-> "json", data |-> Obj([type |-> Str(<<"chat">>), text |-> text])]
ResetFrame == [raw |-> "json", data |-> Obj([type |-> Str(<<"reset">>)])]
ModelFrame(model) == [raw |-> "json", data |-> Obj([type |-> Str(<<"model">>), model |-> model])]

\* raw = "binary": not a string; raw = "text": a string that is no JSON text
InboundFrames ==
  {[raw |-> "binary", data |-> Undef], [raw |-> "text", data |-> Undef],
   [raw |-> "json", data |-> Null], [raw |-> "json", data |-> Obj(<<>>)],
   [raw |-> "json", data |-> Obj([type |-> Str(<<"ping">>)])], ResetFrame}
  \cup {ChatFrame(t) : t \in ChatTexts}
  \cup {ModelFrame(x) : x \in ModelIds}

ToolCall(name, arguments) == Obj([function |-> Obj([name |-> name, arguments |-> arguments])])
Proposes(calls) == [kind |-> "value", v |-> Obj([tool_calls |-> Arr(calls)])]

WeatherArgs ==
  {Null, Obj(<<>>), Obj([location |-> Str(<<"Tokyo">>)]),
   Obj([lat |-> Num(35), lon |-> Num(139), units |-> Str(<<"imperial">>)])}
WikiArgs ==
  {Obj([query |-> Str(<<"Ada">>)]),
   Obj([query |-> Str(<<" ", "Ada", " ">>), lang |-> Str(<<"F", "R">>)]),
   Obj([query |-> Str(<<"Ada">>), lang |-> Str(<<" ", "f", "r">>)]),
   Obj([query |-> Str(<<"Ada">>), lang |-> Num(5)]),
   Obj([query |-> Str(<<" ">>)]), Obj([lang |-> Str(<<"f", "r">>)]),
   Obj([query |-> Str(<<"Ada">>), lang |-> Str(<<" ">>)]),
   Undef, Num(5), Obj([query |-> Num(5)]), JsonStr(Num(5)),
   JsonStr(Obj([query |-> Str(<<"Ada">>)]))}

PlannerOutputs ==
  {[kind |-> "throw"], [kind |-> "value", v |-> Null], [kind |-> "value", v |-> Str(<<"hi">>)],
   [kind |-> "value", v |-> Obj([response |-> Str(<<"hi">>)])], Proposes(<<>>),
   Proposes(<<ToolCall(Str(<<"getISS">>), Undef)>>),
   Proposes(<<ToolCall(Str(<<"getISS">>), Obj([x |-> Num(1)]))>>),
   Proposes(<<ToolCall(Str(<<"getISS">>), Str(<<"{">>))>>),
   Proposes(<<ToolCall(Str(<<"lookup">>), Obj(<<>>)), ToolCall(Str(<<"getISS">>), Obj(<<>>))>>),
   Proposes(<<ToolCall(Str(<<"getWeather">>), Undef)>>),
   Proposes(<<ToolCall(Str(<<"getWeather">>), Str(<<"{">>))>>),
   Proposes(<<ToolCall(Str(<<"getWiki">>), Str(<<"{">>))>>)}
  \cup {Proposes(<<ToolCall(Str(<<"getWeather">>), a)>>) : a \in WeatherArgs}
  \cup {Proposes(<<ToolCall(Str(<<"getWeather">>), JsonStr(a)), ToolCall(Str(<<"getISS">>), Obj(<<>>))>>) :
           a \in {Obj([location |-> Str(<<"Tokyo">>)])}}
  \cup {Proposes(<<ToolCall(Str(<<"getWiki">>), a)>>) : a \in WikiArgs}

IssBodies ==
  {Obj([latitude |-> Num(51), longitude |-> Num(0), altitude |-> Num(420),
        velocity |-> Num(27600), visibility |-> Str(<<"daylight">>)]),
   Obj([latitude |-> Num(51), longitude |-> Num(0)]),
   Obj([longitude |-> Num(0)]),
   Obj([latitude |-> Str(<<"51">>), longitude |-> Num(0)])}

IssResponses ==
  {Rejected, Http(500, TRUE, Null), Http(200, FALSE, Null)}
  \cup {Http(200, TRUE, b) : b \in IssBodies}

GeocodeResponses ==
  {Rejected, Http(500, TRUE, Null), Http(200, TRUE, Obj(<<>>)),
   Http(200, TRUE, Obj([results |-> Arr(<<Obj([latitude |-> Num(35), longitude |-> Num(139),
                                               name |-> Str(<<"Tokyo">>), country |-> Str(<<"Japan">>)])>>)]))}

\* two days, every series complete
ForecastBody ==
  Obj([timezone |-> Str(<<"Asia/Tokyo">>),
       daily |-> Obj([time |-> Arr(<<Str(<<"d1">>), Str(<<"d2">>)>>),
                      temperature_2m_max |-> Arr(<<Num(215), Num(190)>>),
                      temperature_2m_min |-> Arr(<<Num(104), Num(98)>>),
                      precipitation_probability_max |-> Arr(<<Num(450), Num(800)>>),
                      weathercode |-> Arr(<<Num(3), Num(61)>>)])])

\* two days, the second without values
SparseForecastBody ==
  Obj([daily |-> Obj([time |-> Arr(<<Str(<<"d1">>), Str(<<"d2">>)>>),
                      temperature_2m_max |-> Arr(<<Num(215), Null>>),
                      temperature_2m_min |-> Arr(<<Num(104)>>),
                      precipitation_probability_max |-> Arr(<<Num(450), Null>>),
                      weathercode |-> Arr(<<Num(3)>>)])])

\* a forecast body whose series are the given values, one date per maximum
SeriesBody(tmax, tmin, pop) ==
  Obj([daily |-> Obj([time |-> Arr([i \in DOMAIN tmax |-> Str(<<"d", ToString(i)>>)]),
                      temperature_2m_max |-> Arr(tmax),
                      temperature_2m_min |-> Arr(tmin),
                      precipitation_probability_max |-> Arr(pop)])])

\* eight days, the first without temperatures, the eighth the hottest, coldest and wettest
LongForecastBody ==
  SeriesBody(<<Null, Num(200), Num(210), Num(200), Num(200), Num(200), Num(200), Num(400)>>,
             <<Null, Num(100), Num(100), Num(100), Num(100), Num(100), Num(90), Num(-50)>>,
             <<Num(100), Num(100), Num(100), Num(100), Num(100), Num(100), Num(100), Num(900)>>)

\* one-day bodies around the thresholds of the clothing, rain and freezing rules, values
\* in tenths
OneDayBodies ==
  {SeriesBody(<<Num(295)>>, <<Num(40)>>, <<Num(0)>>),
   SeriesBody(<<Num(294)>>, <<Num(40)>>, <<Num(399)>>),
   SeriesBody(<<Num(294)>>, <<Num(54)>>, <<Num(400)>>),
   SeriesBody(<<Num(155)>>, <<Num(64)>>, <<Num(400)>>),
   SeriesBody(<<Num(150)>>, <<Num(60)>>, <<Num(0)>>),
   SeriesBody(<<Num(250)>>, <<Null>>, <<Num(500)>>),
   SeriesBody(<<Null>>, <<Num(100)>>, <<Num(700)>>),
   SeriesBody(<<Null>>, <<Null>>, <<Null>>),
   SeriesBody(<<Num(50)>>, <<Num(4)>>, <<Num(500)>>),
   SeriesBody(<<Num(50)>>, <<Num(-10)>>, <<Num(499)>>),
   SeriesBody(<<Num(50)>>, <<Num(-10)>>, <<Num(700)>>),
   SeriesBody(<<Num(50)>>, <<Num(5)>>, <<Num(699)>>)}

ForecastResponses ==
  {Rejected, Http(500, TRUE, Null), Http(200, FALSE, Null), Http(200, TRUE, Obj(<<>>)),
   Http(200, TRUE, ForecastBody), Http(200, TRUE, SparseForecastBody),
   Http(200, TRUE, LongForecastBody)}
  \cup {Http(200, TRUE, b) : b \in OneDayBodies}

SearchResponses ==
  {Rejected, Http(500, TRUE, Null), Http(200, FALSE, Null), Http(200, TRUE, Arr(<<Str(<<"Ada">>), Arr(<<>>)>>)),
   Http(200, TRUE, Arr(<<Str(<<"Ada">>), Arr(<<Str(<<"Ada", " ", "Lovelace">>)>>)>>))}

\* an extract of n characters
Chars(n) == [i \in 1..n |-> "a"]

\* extracts around SNIPPET_MAX characters: exactly the limit, one more, one more with a
\* blank as the last character kept, the limit after a leading blank, and a blank alone
LongExtracts ==
  {Chars(SNIPPET_MAX), Chars(SNIPPET_MAX + 1),
   Chars(SNIPPET_MAX - 1) \o <<" ", "b">>,
   <<" ">> \o Chars(SNIPPET_MAX),
   <<" ">>}

SummaryResponses ==
  {Http(200, TRUE, Obj([title |-> Str(<<"Ada Lovelace">>), extract |-> Str(e)])) : e \in LongExtracts}
  \cup
  {Rejected, Http(404, TRUE, Null), Http(500, TRUE, Null), Http(200, FALSE, Null),
   Http(200, TRUE, Obj([title |-> Str(<<"Ada Lovelace">>)])),
   Http(200, TRUE, Obj([title |-> Str(<<"Ada Lovelace">>), extract |-> Str(<<"English", " ", "mathematician">>),
                        thumbnail |-> Obj([source |-> Str(<<"https://img">>)])])),
   Http(200, TRUE, Obj([extract |-> Str(<<"English", " ", "mathematician">>),
                        description |-> Str(<<"mathematician">>)]))}

ByteStreams ==
  {<<"data:", "{", "a", "}", "\n", "\n", "data:", " ", "{", "b", "}", "\n", "\n">>,
   <<"data:", "x", "\r", "\n", "\n", "data:", "[DONE]", "\n", "\n">>,
   <<"data:", "{", "a", "}", "\n">>,
   <<"data:", "{", "a", "}", "\r", "\n", "\r", "\n">>}

CompletionOutputs ==
  {[kind |-> "throw"], [kind |-> "value", v |-> Null], [kind |-> "value", v |-> Str(<<"hello">>)]}
  \cup {[kind |-> "stream", bytes |-> b] : b \in ByteStreams}

(* the answers of the environment in a run of scope "session" *)
SessionFrames ==
  {[raw |-> "binary", data |-> Undef], ResetFrame, ChatFrame(Str(<<"q">>)), ModelFrame(Str(<<"m2">>))}

SessionPlannerOutputs ==
  {[kind |-> "throw"],
   Proposes(<<ToolCall(Str(<<"getISS">>), Obj(<<>>))>>),
   Proposes(<<ToolCall(Str(<<"getWeather">>), Obj([location |-> Str(<<"Tokyo">>)]))>>),
   Proposes(<<ToolCall(Str(<<"getWiki">>), Obj([query |-> Str(<<"Ada">>)]))>>),
   Proposes(<<ToolCall(Str(<<"getWiki">>), Obj([query |-> Str(<<"Ada">>), lang |-> Num(5)]))>>)}

SessionIssResponses ==
  {r \in IssResponses : r = Http(500, TRUE, Null)
                          \/ (r.kind = "http" /\ IsRecord(r.body) /\ IsString(Prop(r.body, "visibility")))}
SessionGeocodeResponses == {r \in GeocodeResponses : r = Rejected \/ ~geocodeThrows(r)}
SessionForecastResponses == {Http(500, TRUE, Null), Http(200, TRUE, ForecastBody)}
SessionSearchResponses == {r \in SearchResponses : r = Rejected \/ wikiTitle(<<"q">>, r) # <<"q">>}
SessionSummaryResponses ==
  {r \in SummaryResponses : r = Http(500, TRUE, Null) \/ (r.kind = "http" /\ IsRecord(r.body) /\ IsRecord(Prop(r.body, "thumbnail")))}
SessionCompletionOutputs ==
  {[kind |-> "throw"], [kind |-> "value", v |-> Str(<<"hello">>)],
   [kind |-> "stream", bytes |-> <<"data:", "{", "a", "}", "\n", "\n">>]}

(* ------------------------------- actions ------------------------------- *)
Go(h, c) == Commit(h, c.m, c.p, c.l, c.o)

\* a variant of resetSession that goes back to the initial state, default model included
resetToInitial(m) == [m EXCEPT !.db = <<>>, !.state = initialState(now)]

\* a variant of resetSession that leaves the expiry where it was
resetKeepingExpiry(m) ==
  [m EXCEPT !.db = <<>>,
            !.state = [model |-> m.state.model, messages |-> <<>>,
                       createdAt |-> now, expiresAt |-> m.state.expiresAt]]

\* DELETE FROM messages, then the state is replaced (lines 129-135)
resetSession(m) ==
  [m EXCEPT !.db = <<>>,
            !.state = [model |-> m.state.model, messages |-> <<>>,
                       createdAt |-> now, expiresAt |-> now + DAY]]

\* onMessage up to its first await of I/O (lines 115-162, 326-358)
onMessage(m, frame) ==
  IF frame.raw # "json" THEN Returns(m, "ignored")
  ELSE
    LET data == frame.data
        type == OptProp(data, "type")
    IN IF ~Truthy(type) THEN Returns(m, "ignored")
       ELSE IF type = Str(<<"model">>) /\ Truthy(Prop(data, "model"))
         THEN Returns([m EXCEPT !.state = [@ EXCEPT !.model = Prop(data, "model"),
                                                      !.expiresAt = now + DAY]], "model")
       ELSE IF type = Str(<<"reset">>)
         THEN Returns(Send(resetSession(m), Cleared), "reset")
       ELSE IF type = Str(<<"chat">>)
         THEN LET text == IF Truthy(Prop(data, "text")) THEN Prop(data, "text") ELSE Str(<<>>)
              IN IF ~IsString(text) THEN Throws(m)
                 ELSE LET userText == Trim(text.s)
                          m1 == AppendMessage(SqlInsert(m, "user", Text(userText), now),
                                              Msg("user", Text(userText), now))
                          history == contextWindow(m1.state.messages)
                          request == [model |-> modelOf(m1.state), stream |-> FALSE,
                                      tools |-> {"getWeather", "getWiki", "getISS"},
                                      messages |-> chatMessages(PlannerSystem, history, userText)]
                      IN IF userText = <<>> THEN Returns(m, "ignored")
                         ELSE Cont(Call(m1, "plan", request), "plan",
                                   [NoLocals EXCEPT !.userText = userText, !.history = history],
                                   "none")
       ELSE Returns(m, "ignored")

OnMessage ==
  /\ arrived < FrameBudget
  /\ \E frame \in Drawn(InboundFrames, SessionFrames) :
       Go(arrived + 1, onMessage(Machine(arrived + 1), frame))
  /\ arrived' = arrived + 1
  /\ now' = now

SortedByTs(rows) == \A i, j \in DOMAIN rows : i < j => rows[i].ts <= rows[j].ts

RemoveAt(rows, i) == SubSeq(rows, 1, i - 1) \o SubSeq(rows, i + 1, Len(rows))

\* SELECT role, content, ts FROM messages ORDER BY ts ASC: the rows in ascending ts,
\* rows of equal ts in any order
RECURSIVE SelectOrderByTs(_)
SelectOrderByTs(rows) ==
  IF rows = <<>> THEN {<<>>}
  ELSE UNION {{<<rows[i]>> \o r : r \in SelectOrderByTs(RemoveAt(rows, i))} :
                i \in {k \in DOMAIN rows : \A j \in DOMAIN rows : rows[k].ts <= rows[j].ts}}

\* onConnect (lines 99-113)
OnConnect ==
  /\ IF state.messages = <<>>
       THEN \E rows \in SelectOrderByTs(db) :
              state' = [state EXCEPT !.messages = rows, !.expiresAt = now + DAY]
       ELSE state' = state
  /\ lastReady' = [sent |-> TRUE, messages |-> state'.messages]
  /\ UNCHANGED <<db, now, arrived, pc, loc, trace, outcome, scope>>

\* Date.now() advances
Tick ==
  /\ now < MaxClock
  /\ now' = now + 1
  /\ lastReady' = NoReady
  /\ UNCHANGED <<state, db, arrived, pc, loc, trace, outcome, scope>>

\* ai.run of the request that offered getWiki settled: out is the value it resolved
\* to, or its rejection
Settled(m, out) == [m EXCEPT !.tr = Append(@, [k |-> "reply", out |-> out])]

\* ai.run of the planner settles (lines 358-436), onMessage goes on to its next await
PlanReturn(h) ==
  /\ pc[h] = "plan"
  /\ \E out \in Drawn(PlannerOutputs, SessionPlannerOutputs) :
       LET toolPlan == planWithAllTools(out)
           m == Settled(Machine(h), out)
       IN Go(h, IF toolPlan.tool = "none" THEN startStream(m, loc[h])
                ELSE startTool(m, loc[h], toolPlan))
  /\ UNCHANGED <<now, arrived>>

\* the fetch of getISS settles
IssReturn(h) ==
  /\ pc[h] = "iss"
  /\ \E r \in Drawn(IssResponses, SessionIssResponses) : Go(h, finishTool(Machine(h), "getISS", getISS(r)))
  /\ UNCHANGED <<now, arrived>>

\* the fetch of geocode settles (lines 84-100)
GeocodeReturn(h) ==
  /\ pc[h] = "geocode"
  /\ \E r \in Drawn(GeocodeResponses, SessionGeocodeResponses) :
       IF geocodeThrows(r)
         THEN Go(h, finishTool(Machine(h), "getWeather", Fail(<<"Failed to fetch forecast.">>)))
         ELSE LET g == geocode(String(Prop(loc[h].args, "location")), r)
                  l == [loc[h] EXCEPT !.lat = g.lat, !.lon = g.lon, !.name = g.name,
                                      !.region = g.region, !.country = g.country]
              IN Go(h, Cont(Call(Machine(h), "forecast",
                                 [url |-> <<"forecast", l.units>> \o coordsName(l.lat, l.lon)]),
                            "forecast", l, "none"))
  /\ UNCHANGED <<now, arrived>>

\* the forecast fetch settles
ForecastReturn(h) ==
  /\ pc[h] = "forecast"
  /\ \E r \in Drawn(ForecastResponses, SessionForecastResponses) :
       Go(h, finishTool(Machine(h), "getWeather", weatherResult(loc[h], r)))
  /\ UNCHANGED <<now, arrived>>

\* setTimeout(() => ctrl.abort(), 12_000) fires: the pending fetch of getWeather rejects
WeatherTimeout(h) ==
  /\ pc[h] \in {"geocode", "forecast"}
  /\ loc[h].timeout
  /\ Go(h, finishTool(Send(Machine(h), [k |-> "timer", what |-> "abort"]), "getWeather",
                      Fail(<<"Failed to fetch forecast.">>)))
  /\ UNCHANGED <<now, arrived>>

\* the opensearch fetch settles (lines 112-141)
SearchReturn(h) ==
  /\ pc[h] = "search"
  /\ \E r \in Drawn(SearchResponses, SessionSearchResponses) :
       LET title == wikiTitle(loc[h].query, r)
       IN Go(h, Cont(Call(Got(Machine(h), "search", r), "summary",
                          [url |-> <<"summary">> \o loc[h].lang \o title]),
                     "summary", [loc[h] EXCEPT !.title = title], "none"))
  /\ UNCHANGED <<now, arrived>>

\* the summary fetch settles
SummaryReturn(h) ==
  /\ pc[h] = "summary"
  /\ \E r \in Drawn(SummaryResponses, SessionSummaryResponses) :
       Go(h, finishTool(Got(Machine(h), "summary", r), "getWiki",
                        wikiResult(loc[h].lang, loc[h].title, r)))
  /\ UNCHANGED <<now, arrived>>

\* ai.run of #streamAssistant settles (lines 596-606)
RunReturn(h) ==
  /\ pc[h] = "run"
  /\ \E out \in Drawn(CompletionOutputs, SessionCompletionOutputs) :
       Go(h, CASE out.kind = "throw" -> streamFailed(Machine(h), loc[h])
               [] out.kind = "value" -> notAStream(Machine(h), out.v)
               [] out.kind = "stream" ->
                    Cont(Opened(Machine(h), out.bytes), "read",
                         [loc[h] EXCEPT !.rest = out.bytes], "none"))
  /\ UNCHANGED <<now, arrived>>

\* reader.read() resolves with the next bytes of the stream (lines 610-637)
ReadChunk(h) ==
  /\ pc[h] = "read"
  /\ \E n \in 1..Len(loc[h].rest) :
       LET l == [loc[h] EXCEPT !.buffer = @ \o SubSeq(loc[h].rest, 1, n),
                               !.rest = SubSeq(@, n + 1, Len(@))]
           d == drainBuffer(Machine(h), l)
       IN Go(h, Cont(d.m, "read", d.l, "none"))
  /\ UNCHANGED <<now, arrived>>

\* reader.read() resolves with done
ReadDone(h) ==
  /\ pc[h] = "read"
  /\ loc[h].rest = <<>>
  /\ Go(h, streamEnded(Machine(h), loc[h]))
  /\ UNCHANGED <<now, arrived>>

\* reader.read() rejects
ReadError(h) ==
  /\ pc[h] = "read"
  /\ Go(h, streamFailed(Machine(h), loc[h]))
  /\ UNCHANGED <<now, arrived>>

Step(h) ==
  \/ PlanReturn(h)
  \/ IssReturn(h)
  \/ GeocodeReturn(h)
  \/ ForecastReturn(h)
  \/ WeatherTimeout(h)
  \/ SearchReturn(h)
  \/ SummaryReturn(h)
  \/ RunReturn(h)
  \/ ReadChunk(h)
  \/ ReadDone(h)
  \/ ReadError(h)

Next ==
  \/ OnMessage
  \/ OnConnect
  \/ Tick
  \/ \E h \in Handlers : Step(h)

Spec == Init /\ [][Next]_vars

(* ---------------- the agent of src/worker/agent.ts --------------------- *)
(* The repository also holds the agent with two tools, which plans with    *)
(* one inference call per tool.  Its frames other than chat, its tool      *)
(* branches, its summaries and its streamed completion are those above.    *)
(* The words of a chat text are tokens, in lower case.                     *)

\* /\b(what|which)\s+tools?\b.*(have|can\s+you\s+use)|\btools\??$/i.test(userText)
toolsQuestion(s) ==
  LET n == Len(s)
      Blank(a, b) == b > a + 1 /\ \A x \in (a + 1)..(b - 1) : IsSpace(s[x])
  IN \/ n >= 1 /\ s[n] = "tools"
     \/ n >= 2 /\ s[n - 1] = "tools" /\ s[n] = "?"
     \/ \E i, k, j \in 1..n :
          /\ s[i] \in {"what", "which"} /\ Blank(i, k) /\ s[k] \in {"tool", "tools"}
          /\ j > k
          /\ \/ s[j] = "have"
             \/ \E a, b \in 1..n :
                  s[j] = "can" /\ Blank(j, a) /\ s[a] = "you" /\ Blank(a, b) /\ s[b] = "use"

\* #tryPlanWeather from the value ai.run resolved to: the arguments, or no plan
tryPlanWeather(out) ==
  IF out.kind = "throw" THEN NoPlan
  ELSE IF ~Truthy(out.v) \/ ~IsRecord(out.v) THEN NoPlan
  ELSE
    LET tc == Prop(out.v, "tool_calls")
        calls == IF tc.t = "array" THEN tc.a ELSE <<>>
    IN IF calls = <<>> THEN NoPlan
       ELSE
         LET call == calls[1]
             fn == OptProp(OptProp(call, "function"), "name")
             rawArgs == OptProp(OptProp(call, "function"), "arguments")
         IN IF fn # Str(<<"getWeather">>) THEN NoPlan
            ELSE IF ~Truthy(rawArgs) THEN Plan("getWeather", Obj(<<>>))
            ELSE IF IsString(rawArgs) \/ IsRecord(rawArgs)
              THEN Plan("getWeather", parseArgs(rawArgs))
            ELSE Plan("getWeather", Obj(<<>>))

\* #tryPlanWiki from the value ai.run resolved to: the validated arguments, or no plan
tryPlanWiki(out) ==
  IF out.kind = "throw" THEN NoPlan
  ELSE IF ~Truthy(out.v) \/ ~IsRecord(out.v) THEN NoPlan
  ELSE
    LET tc == Prop(out.v, "tool_calls")
        calls == IF tc.t = "array" THEN tc.a ELSE <<>>
        validate(x) ==
          IF ~Truthy(x) \/ ~IsRecord(x) THEN NoPlan
          ELSE
            LET q == Prop(x, "query")
                langVal == Prop(x, "lang")
            IN IF IsString(q) /\ "s" \in DOMAIN q /\ Trim(q.s) # <<>>
                 THEN IF IsString(langVal) /\ "s" \in DOMAIN langVal /\ Trim(langVal.s) # <<>>
                        THEN Plan("getWiki", Obj([query |-> Str(Trim(q.s)),
                                                  lang |-> Str(Trim(langVal.s))]))
                        ELSE Plan("getWiki", Obj([query |-> Str(Trim(q.s))]))
               ELSE NoPlan
    IN IF calls = <<>> THEN NoPlan
       ELSE
         LET call == calls[1]
             fn == OptProp(OptProp(call, "function"), "name")
             rawArgs == OptProp(OptProp(call, "function"), "arguments")
         IN IF fn # Str(<<"getWiki">>) THEN NoPlan
            ELSE IF ~Truthy(rawArgs) THEN NoPlan
            ELSE IF IsString(rawArgs)
              THEN IF "json" \in DOMAIN rawArgs THEN validate(rawArgs.json) ELSE NoPlan
            ELSE IF IsRecord(rawArgs) THEN validate(rawArgs)
            ELSE NoPlan

\* the planning request of #tryPlanWeather and of #tryPlanWiki
planRequest(m, l, tool) ==
  [model |-> modelOf(m.state), stream |-> FALSE, tools |-> {tool},
   messages |-> chatMessages(<<"You can call tools. ...", tool>>, l.history, l.userText)]

\* onMessage of src/worker/agent.ts up to its first await of I/O (lines 109-166)
onMessageTwoTools(m, frame) ==
  LET text == OptProp(frame.data, "text")
      userText == IF IsString(text) /\ "s" \in DOMAIN text THEN Trim(text.s) ELSE <<>>
      m1 == AppendMessage(SqlInsert(m, "user", Text(userText), now),
                          Msg("user", Text(userText), now))
      l1 == [NoLocals EXCEPT !.userText = userText,
                             !.history = contextWindow(m1.state.messages)]
      toolAnswer == <<"I can use two tools: ...">>
  IN IF frame.raw = "json" /\ OptProp(frame.data, "type") = Str(<<"chat">>) /\ userText # <<>>
       THEN IF toolsQuestion(userText)
              THEN Returns(saveAssistant(Send(Send(m1, Delta(toolAnswer)), Done), toolAnswer),
                           "answered")
            ELSE Cont(Call(m1, "plan", planRequest(m1, l1, "getWeather")), "planWeather",
                      l1, "none")
     ELSE onMessage(m, frame)

OnMessageTwoTools ==
  /\ arrived < FrameBudget
  /\ \E frame \in Drawn(InboundFrames, SessionFrames) :
       Go(arrived + 1, onMessageTwoTools(Machine(arrived + 1), frame))
  /\ arrived' = arrived + 1
  /\ now' = now

\* ai.run of #tryPlanWeather settles (lines 166-206, 209)
PlanWeatherReturn(h) ==
  /\ pc[h] = "planWeather"
  /\ \E out \in Drawn(PlannerOutputs, SessionPlannerOutputs) :
       LET plannedWeather == tryPlanWeather(out)
           m == Machine(h)
       IN Go(h, IF plannedWeather.tool = "none"
                  THEN Cont(Call(m, "plan", planRequest(m, loc[h], "getWiki")),
                            "planWiki", loc[h], "none")
                ELSE startTool(m, loc[h], plannedWeather))
  /\ UNCHANGED <<now, arrived>>

\* ai.run of #tryPlanWiki settles (lines 209-258)
PlanWikiReturn(h) ==
  /\ pc[h] = "planWiki"
  /\ \E out \in Drawn(PlannerOutputs, SessionPlannerOutputs) :
       LET plannedWiki == tryPlanWiki(out)
           m == Settled(Machine(h), out)
       IN Go(h, IF plannedWiki.tool = "none" THEN startStream(m, loc[h])
                ELSE startTool(m, loc[h], plannedWiki))
  /\ UNCHANGED <<now, arrived>>

TwoToolsNext ==
  \/ OnMessageTwoTools
  \/ OnConnect
  \/ Tick
  \/ \E h \in Handlers :
       \/ PlanWeatherReturn(h)
       \/ PlanWikiReturn(h)
       \/ GeocodeReturn(h)
       \/ ForecastReturn(h)
       \/ WeatherTimeout(h)
       \/ SearchReturn(h)
       \/ SummaryReturn(h)
       \/ RunReturn(h)
       \/ ReadChunk(h)
       \/ ReadDone(h)
       \/ ReadError(h)

\* one turn of the agent with two tools, in every environment
TwoToolsInit == Init /\ scope = "turn"

TwoToolsSpec == TwoToolsInit /\ [][TwoToolsNext]_vars


(* --------------------------- long sessions ----------------------------- *)
(* The log of a session that went on for a while: some plain turns (a user *)
(* row and the streamed reply), then tool turns that succeeded (user row,  *)
(* acknowledgement, tool row, summary), then plain turns that fill the     *)
(* window or fall short of it by a few turns.                              *)
Logs ==
  LET toolContent ==
        JSONstringify(Obj([type |-> Str(<<"tool_result">>), tool |-> Str(<<"getISS">>),
                           result |-> Obj([ok |-> True, lat |-> Num(1), lon |-> Num(2)])]))
      Turn(j, withTool) ==
        IF withTool
          THEN <<Msg("user", Text(<<"u", ToString(j)>>), 0),
                 Msg("assistant", Text(Ack("getISS")), 0),
                 Msg("tool", toolContent, 0),
                 Msg("assistant", Text(<<"s", ToString(j)>>), 0)>>
        ELSE <<Msg("user", Text(<<"u", ToString(j)>>), 0),
               Msg("assistant", Text(<<"a", ToString(j)>>), 0)>>
      RECURSIVE Session(_, _, _)
      Session(j, before, tools) ==
        IF j = 0 THEN <<>>
        ELSE Session(j - 1, before, tools) \o Turn(j, j > before /\ j <= before + tools)
  IN {Session(before + tools + after, before, tools) :
        before \in 0..MaxBefore, tools \in 0..MaxToolTurns,
        after \in (WINDOW \div 2 - MaxShort)..(WINDOW \div 2)}

\* the agent is woken on a session whose log is one of Logs
LongSessionInit ==
  /\ state \in {[initialState(0) EXCEPT !.messages = log] : log \in Logs}
  /\ db = state.messages
  /\ now = 0
  /\ arrived = 0
  /\ pc = [h \in Handlers |-> "idle"]
  /\ loc = [h \in Handlers |-> NoLocals]
  /\ trace = [h \in Handlers |-> <<>>]
  /\ outcome = [h \in Handlers |-> "none"]
  /\ lastReady = NoReady
  /\ scope = "turn"

\* the next frame of the session, up to the requests that carry the context window
LongSessionNext ==
  \/ OnMessage
  \/ \E h \in Handlers : PlanReturn(h)

LongSessionSpec == LongSessionInit /\ [][LongSessionNext]_vars

(* ------------------------------ waking up ------------------------------ *)
(* The reload of onConnect matters when the agent starts with the initial  *)
(* state on a table that holds rows: here the four rows of a tool turn, or *)
(* the two rows of a plain turn, written at non-decreasing times.          *)
WakeInit ==
  LET rows == <<Msg("user", Text(<<"q">>), 0), Msg("assistant", Text(Ack("getISS")), 0),
                Msg("tool", JSONstringify(Obj([type |-> Str(<<"tool_result">>),
                                               tool |-> Str(<<"getISS">>),
                                               result |-> Obj([ok |-> True])])), 0),
                Msg("assistant", Text(<<"summary">>), 0)>>
      Stamped(n, times) == [i \in 1..n |-> [rows[IF n = 2 /\ i = 2 THEN 4 ELSE i] EXCEPT !.ts = times[i]]]
  IN /\ db \in {Stamped(n, times) : n \in {2, 4}, times \in [1..4 -> 0..MaxClock]}
     /\ SortedByTs(db)
     /\ state = initialState(0)
     /\ now = Last(db).ts
     /\ arrived = 0
     /\ pc = [h \in Handlers |-> "idle"]
     /\ loc = [h \in Handlers |-> NoLocals]
     /\ trace = [h \in Handlers |-> <<>>]
     /\ outcome = [h \in Handlers |-> "none"]
     /\ lastReady = NoReady
     /\ scope = "turn"

\* the client connects, then sends a frame
WakeNext ==
  \/ OnConnect
  \/ Tick
  \/ (state.messages # <<>> /\ OnMessage)

WakeSpec == WakeInit /\ [][WakeNext]_vars

(* ------------------------------ properties ----------------------------- *)
Rows(tr) == SelectSeq(tr, LAMBDA e : e.k = "row")
Frames(tr) == SelectSeq(tr, LAMBDA e : e.k = "frame")
ToolFrames(tr) == SelectSeq(tr, LAMBDA e : e.k = "frame" /\ e.type = "tool")
Roles(rows) == [i \in DOMAIN rows |-> rows[i].role]
Statuses(frames) == [i \in DOMAIN frames |-> frames[i].status]

AdapterCalls == {"iss", "geocode", "forecast", "search", "summary"}
InferenceCalls == {"plan", "stream"}
TerminalOutcomes == {"tool_ok", "tool_fail", "stream_ok", "stream_fail"}

\* the handler of frame h persisted its user row and has not returned
InTurn(h) == pc[h] \in {"plan", "run", "read"} \cup AdapterCalls
\* the handler of frame h wrote a row, changed the session state or sent a frame
Acted(h) ==
  \/ outcome[h] \in {"model", "reset"}
  \/ \E i \in DOMAIN trace[h] : trace[h][i].k \in {"row", "frame"}

\* C1: turns are processed one at a time in arrival order: while the turn of a chat
\* frame is between its user row and its terminal outcome, no handler of a later frame
\* has written a row, changed the session state or sent a frame.
C1_OneTurnAtATime ==
  \A h1, h2 \in Handlers : h1 < h2 /\ InTurn(h1) => ~Acted(h2)

\* the turn of frame h ended in a terminal outcome: its last row is an assistant row and
\* its last frame is done
Ended(h) ==
  LET rows == Rows(trace[h])
      frames == Frames(trace[h])
  IN /\ outcome[h] \in TerminalOutcomes
     /\ rows[Len(rows)].role = "assistant"
     /\ frames # <<>> /\ frames[Len(frames)] = Done

\* C2: every chat frame with non-empty text reaches one terminal outcome with a final
\* assistant row and a final done frame: a handler that persisted a user row and is no
\* longer running has ended so (a running handler always has a call that can return).
C2_TurnReachesOutcome ==
  \A h \in Handlers :
    Rows(trace[h]) # <<>> /\ pc[h] \in {"done", "crashed"} => Ended(h)

\* C3: every adapter bounds its external calls with a timeout: while a handler waits
\* for a fetch of an adapter, a timer that aborts the fetch is pending.
C3_FetchesBounded ==
  \A h \in Handlers : pc[h] \in AdapterCalls => loc[h].timeout

\* the handler of frame h invoked an adapter (the step frame is sent right before)
Invoked(h) ==
  \E i \in DOMAIN trace[h] :
    trace[h][i].k = "frame" /\ trace[h][i].type = "tool" /\ trace[h][i].status = "step"

\* C4: an adapter returns a typed success or failure for every argument payload and
\* never raises: no handler that invoked an adapter is ended by an exception.
C4_AdaptersNeverRaise ==
  \A h \in Handlers : Invoked(h) => pc[h] # "crashed"

C6_ToolFailure ==
  \A h \in Handlers :
    outcome[h] = "tool_fail" =>
      LET tr == trace[h]
          n == Len(tr)
          rows == Rows(tr)
          tool == ToolFrames(tr)[1].tool
      IN /\ pc[h] = "done"
         /\ Roles(rows) = <<"user", "assistant", "assistant">>
         /\ rows[2].content = Text(Ack(tool))
         /\ rows[3].content = Text(Apology(tool))
         /\ tr[n - 3].k = "frame" /\ tr[n - 3].type = "tool"
         /\ tr[n - 3].status = "error" /\ tr[n - 3].tool = tool
         /\ tr[n - 2] = Delta(Apology(tool))
         /\ tr[n - 1] = Done
         /\ tr[n].k = "row" /\ tr[n].content = Text(Apology(tool))

C6_Witness ==
  \E h \in Handlers :
    /\ outcome[h] = "tool_fail"
    /\ \E i \in DOMAIN trace[h] : trace[h][i] = ToolEvent("getISS", "error", <<"Malformed response">>)

\* C7: a turn whose adapter succeeded adds the rows user, acknowledgement, tool result,
\* summary in this order; the acknowledgement is sent and persisted before the first
\* fetch of the adapter, the tool row is persisted before the summary is sent, and the
\* planning call is the only inference call of the turn.
C7_ToolSuccess ==
  \A h \in Handlers :
    outcome[h] = "tool_ok" =>
      LET tr == trace[h]
          rows == Rows(tr)
          tool == ToolFrames(tr)[1].tool
          IsRow(e, role) == e.k = "row" /\ e.role = role
          IsFetch(e) == e.k = "call" /\ e.what \in AdapterCalls
      IN /\ pc[h] = "done"
         /\ Roles(rows) = <<"user", "assistant", "tool", "assistant">>
         /\ rows[2].content = Text(Ack(tool))
         /\ LET ackSent == {i \in DOMAIN tr : tr[i] = Delta(Ack(tool))}
                ackSaved == {i \in DOMAIN tr : IsRow(tr[i], "assistant")
                                                 /\ tr[i].content = Text(Ack(tool))}
                fetches == {i \in DOMAIN tr : IsFetch(tr[i])}
                toolSaved == {i \in DOMAIN tr : IsRow(tr[i], "tool")}
                summarySent == {i \in DOMAIN tr : tr[i].k = "frame" /\ tr[i].type = "delta"
                                                    /\ Text(tr[i].text) = rows[4].content}
            IN /\ fetches # {}
               /\ \E d \in ackSent, a \in ackSaved, t \in toolSaved, s \in summarySent :
                    /\ d < a /\ t < s
                    /\ \A f \in fetches : a < f /\ f < t
         /\ Cardinality({i \in DOMAIN tr : tr[i].k = "call" /\ tr[i].what \in InferenceCalls}) = 1

C7_Witness ==
  \E h \in Handlers :
    /\ outcome[h] = "tool_ok"
    /\ ToolFrames(trace[h])[1].tool = "getWeather"
    /\ \E i \in DOMAIN trace[h] : trace[h][i].k = "call" /\ trace[h][i].what = "geocode"

\* C8: the tool frames of a turn that selected a tool are started, step, then exactly
\* one terminal frame (done with the result after a success, error after a failure), all
\* for the same tool; a turn that selected no tool sends no tool frame.
C8_ToolFrameSequence ==
  \A h \in Handlers :
    LET frames == ToolFrames(trace[h])
        st == Statuses(frames)
    IN /\ \A i \in DOMAIN frames : frames[i].tool = frames[1].tool
       /\ CASE outcome[h] = "tool_ok" -> st = <<"started", "step", "done">>
                                         /\ "result" \in DOMAIN frames[3]
            [] outcome[h] = "tool_fail" -> st = <<"started", "step", "error">>
            [] pc[h] \in AdapterCalls -> st = <<"started", "step">>
            [] OTHER -> st = <<>>

\* the required members of a success result, read back from its JSON text
HasString(o, k) == IsString(Prop(o, k))
HasNumber(o, k) == Prop(o, k).t = "number"
ValidDay(d) ==
  d.t = "object" /\ HasString(d, "date") /\ HasNumber(d, "tMin") /\ HasNumber(d, "tMax")
    /\ HasNumber(d, "pop")
ValidResult(tool, r) ==
  /\ r.t = "object"
  /\ Prop(r, "ok") = True
  /\ CASE tool = "getISS" -> HasNumber(r, "lat") /\ HasNumber(r, "lon") /\ HasNumber(r, "ts")
       [] tool = "getWiki" -> HasString(r, "title") /\ HasString(r, "extract")
                              /\ HasString(r, "pageUrl") /\ HasString(r, "lang")
       [] tool = "getWeather" ->
            /\ HasString(Prop(r, "place"), "name") /\ HasString(Prop(r, "place"), "timezone")
            /\ HasString(Prop(r, "units"), "temp")
            /\ Prop(r, "daily").t = "array"
            /\ \A i \in DOMAIN Prop(r, "daily").a : ValidDay(Prop(r, "daily").a[i])
       [] OTHER -> FALSE
ValidToolRow(row) ==
  /\ IsJsonText(row.content)
  /\ LET envelope == JSONparse(row.content)
     IN /\ envelope.t = "object"
        /\ Prop(envelope, "type") = Str(<<"tool_result">>)
        /\ IsString(Prop(envelope, "tool"))
        /\ Prop(envelope, "tool").s \in ToolNames
        /\ ValidResult(ToolOf(Prop(envelope, "tool").s), Prop(envelope, "result"))
ValidLog(rows) ==
  \A i \in DOMAIN rows :
    /\ rows[i].role \in {"user", "assistant", "tool"}
    /\ rows[i].role = "tool" => ValidToolRow(rows[i])
    /\ rows[i].role # "tool" => ~IsJsonText(rows[i].content)

\* C9: every tool row of the log, and of a ready frame, reads back as the envelope
\* {type: "tool_result", tool, result} of one of the three tools with a success result
\* that has every required member; nothing else is persisted under the tool role.
C9_ToolRowsValid ==
  ValidLog(db) /\ ValidLog(state.messages) /\ ValidLog(lastReady.messages)

\* the text names the HTTP status of a failed call
HttpStatuses == {404, 500}
Diagnostic(text) == \E i \in DOMAIN text : \E status \in HttpStatuses : text[i] = ToString(status)

\* C10: no delta frame and no tool frame carries the diagnostic detail of a failed
\* external call.
C10_NoDiagnosticsSent ==
  \A h \in Handlers : \A i \in DOMAIN trace[h] :
    LET e == trace[h][i]
    IN /\ e.k = "frame" /\ e.type = "delta" => ~Diagnostic(e.text)
       /\ e.k = "frame" /\ e.type = "tool" => ~Diagnostic(e.message)

\* the texts of the delta frames of tr, concatenated in the order sent
RECURSIVE DeltaText(_)
DeltaText(tr) ==
  IF tr = <<>> THEN <<>>
  ELSE (IF Head(tr).k = "frame" /\ Head(tr).type = "delta" THEN Head(tr).text ELSE <<>>)
         \o DeltaText(Tail(tr))

DoneCount(tr) == Cardinality({i \in DOMAIN tr : tr[i] = Done})

\* C11: a streamed completion that fails after k >= 0 fragments were sent persists one
\* assistant row holding those fragments followed by the placeholder marker, sends
\* exactly one done frame, and the handler returns.
C11_MarkerAppended ==
  \A h \in Handlers :
    outcome[h] = "stream_fail" =>
      LET rows == Rows(trace[h])
      IN /\ pc[h] = "done"
         /\ Roles(rows) = <<"user", "assistant">>
         /\ rows[2].content = Text(DeltaText(trace[h]) \o StreamError)
         /\ DoneCount(trace[h]) = 1

\* the texts of the delta frames of tr, one element per frame
RECURSIVE DeltaTexts(_)
DeltaTexts(tr) ==
  IF tr = <<>> THEN <<>>
  ELSE (IF Head(tr).k = "frame" /\ Head(tr).type = "delta" THEN <<Head(tr).text>> ELSE <<>>)
         \o DeltaTexts(Tail(tr))

\* the non-empty fragments of the lines of one event
RECURSIVE LineFragments(_)
LineFragments(lines) ==
  IF lines = <<>> THEN <<>>
  ELSE (IF linePiece(Head(lines)) = <<>> THEN <<>> ELSE <<linePiece(Head(lines))>>)
         \o LineFragments(Tail(lines))

\* the fragments of the events of a text whose lines end with a line feed; an event
\* ends with a blank line
RECURSIVE EventFragments(_)
EventFragments(text) ==
  LET idx == IndexOfBlank(text, 1)
  IN IF idx = 0 THEN <<>>
     ELSE LineFragments(SplitLines(SubSeq(text, 1, idx - 1), <<>>))
            \o EventFragments(SubSeq(text, idx + 2, Len(text)))

\* the fragments the endpoint produced: the events of the byte stream, its lines ending
\* with a line feed or with carriage return and line feed
Fragments(bytes) == EventFragments(ReplaceCRLF(bytes))

RECURSIVE Concat(_)
Concat(texts) == IF texts = <<>> THEN <<>> ELSE Head(texts) \o Concat(Tail(texts))

\* the bytes of the stream the handler of frame h read, <<>> if it read no stream
StreamOf(h) ==
  LET opened == SelectSeq(trace[h], LAMBDA e : e.k = "stream")
  IN IF opened = <<>> THEN <<>> ELSE opened[1].bytes

\* C12: when the stream of the open-ended completion ends normally, the delta frames
\* are the non-empty fragments the endpoint produced, in order, none dropped or
\* duplicated, whatever the chunks are, and the assistant row persisted is their
\* concatenation.
C12_DeltasAreFragments ==
  \A h \in Handlers :
    outcome[h] = "stream_ok" /\ StreamOf(h) # <<>> =>
      LET rows == Rows(trace[h])
      IN /\ DeltaTexts(trace[h]) = Fragments(StreamOf(h))
         /\ Roles(rows) = <<"user", "assistant">>
         /\ rows[2].content = Text(Concat(Fragments(StreamOf(h))))

(* ------------------------------- planning ------------------------------ *)
PlanCalls(tr) == {i \in DOMAIN tr : tr[i].k = "call" /\ tr[i].what = "plan"}
\* what a turn does once it has planned: frames, adapter fetches, the completion
AfterPlanning(tr) ==
  {i \in DOMAIN tr : tr[i].k = "frame" \/ (tr[i].k = "call" /\ tr[i].what # "plan")}

\* C13: a chat frame with non-empty text (its user row is persisted) causes exactly
\* one planning inference call, which presents the catalog of all three tools and
\* comes before every frame, adapter fetch and completion call of the turn.
C13_OnePlanningCall ==
  \A h \in Handlers :
    Rows(trace[h]) # <<>> =>
      /\ Cardinality(PlanCalls(trace[h])) = 1
      /\ \A i \in PlanCalls(trace[h]) :
           /\ trace[h][i].request.tools = {"getWeather", "getWiki", "getISS"}
           /\ \A j \in AfterPlanning(trace[h]) : i < j

\* the values the planning requests of the turn resolved to, in order
Replies(tr) == SelectSeq(tr, LAMBDA e : e.k = "reply")
\* the tool proposals of a planner response
Proposals(out) ==
  IF out.kind = "value" /\ out.v.t = "object" /\ Prop(out.v, "tool_calls").t = "array"
    THEN Prop(out.v, "tool_calls").a ELSE <<>>
\* the tool a handler went on with: that of its tool frames, or none
Decided(tr) == IF ToolFrames(tr) = <<>> THEN "none" ELSE ToolFrames(tr)[1].tool
AdapterOf(what) ==
  CASE what = "iss" -> "getISS"
    [] what \in {"geocode", "forecast"} -> "getWeather"
    [] what \in {"search", "summary"} -> "getWiki"
\* the adapters that issued a fetch for the handler
Fetching(tr) == {AdapterOf(tr[i].what) : i \in {j \in DOMAIN tr : tr[j].k = "call" /\ tr[j].what \in AdapterCalls}}

\* C14: the decision is the one the first proposal alone would give: further
\* proposals change nothing, an unknown first tool gives none whatever follows,
\* and a turn runs at most one adapter (one step frame, fetches of that tool only).
C14_FirstProposalOnly ==
  \A h \in Handlers :
    Replies(trace[h]) # <<>> /\ Proposals(Replies(trace[h])[1].out) # <<>> =>
      LET tr == trace[h]
          calls == Proposals(Replies(tr)[1].out)
          name == OptProp(OptProp(calls[1], "function"), "name")
      IN /\ Decided(tr) = planWithAllTools(Proposes(<<calls[1]>>)).tool
         /\ (~IsString(name) \/ name.s \notin ToolNames) => Decided(tr) = "none"
         /\ \A i \in DOMAIN ToolFrames(tr) : ToolFrames(tr)[i].tool = Decided(tr)
         /\ Cardinality({i \in DOMAIN ToolFrames(tr) : ToolFrames(tr)[i].status = "step"}) <= 1
         /\ Fetching(tr) \subseteq {Decided(tr)}

\* a turn whose planner response made two proposals ran the first tool to its end
C14_Witness ==
  \E h \in Handlers :
    /\ outcome[h] = "tool_ok"
    /\ Len(Proposals(Replies(trace[h])[1].out)) = 2
    /\ Decided(trace[h]) = "getWeather"

\* the planner gave nothing: ai.run rejected, or resolved to a value that is no object
\* or proposes no tool
NoProposal(out) == Proposals(out) = <<>>

\* C15: when the planning call throws, returns a malformed response or proposes no
\* tool, the turn goes straight on to the streamed completion: the completion request
\* follows the planner's reply at once, no adapter fetches, no tool frame is sent, no
\* tool row is persisted, and the client receives delta and done frames only.
C15_PlanningFailureIsSilent ==
  \A h \in Handlers :
    Replies(trace[h]) # <<>> /\ NoProposal(Replies(trace[h])[1].out) =>
      LET tr == trace[h]
          r == CHOOSE i \in DOMAIN tr : tr[i].k = "reply"
      IN /\ Len(tr) > r /\ tr[r + 1].k = "call" /\ tr[r + 1].what = "stream"
         /\ tr[r + 1].request.stream /\ tr[r + 1].request.tools = {}
         /\ Fetching(tr) = {}
         /\ ToolFrames(tr) = <<>>
         /\ \A i \in DOMAIN Rows(tr) : Rows(tr)[i].role # "tool"
         /\ \A i \in DOMAIN Frames(tr) : Frames(tr)[i].type \in {"delta", "done"}
         /\ outcome[h] \in {"none", "stream_ok", "stream_fail"}

\* a turn whose planning call was rejected ended with a streamed reply
C15_Witness ==
  \E h \in Handlers :
    /\ outcome[h] = "stream_ok"
    /\ Replies(trace[h])[1].out.kind = "throw"
    /\ DeltaTexts(trace[h]) # <<>>

\* the name and the argument payload of the first proposal of a planner response
FirstName(out) == OptProp(OptProp(Proposals(out)[1], "function"), "name")
FirstArgs(out) == OptProp(OptProp(Proposals(out)[1], "function"), "arguments")
\* the payload decoded: a string holding JSON text is parsed, any other string decodes
\* to nothing
Decoded(raw) ==
  IF IsString(raw) THEN (IF "json" \in DOMAIN raw THEN raw.json ELSE Undef) ELSE raw
\* an object with a string query that is not blank
HasQuery(args) ==
  /\ args.t = "object"
  /\ LET q == Prop(args, "query") IN IsString(q) /\ "s" \in DOMAIN q /\ Trim(q.s) # <<>>
ProposesWiki(tr) ==
  /\ Replies(tr) # <<>>
  /\ Proposals(Replies(tr)[1].out) # <<>>
  /\ FirstName(Replies(tr)[1].out) = Str(<<"getWiki">>)

\* C16: when the first proposal names getWiki, the turn goes on with getWiki exactly
\* if the decoded arguments are an object with a string query that is non-empty after
\* trimming; otherwise the decision is none: the completion starts, the encyclopedia
\* adapter is not invoked (no tool frame, no fetch) and no second planning call is made.
C16_WikiNeedsQuery ==
  \A h \in Handlers :
    ProposesWiki(trace[h]) =>
      LET tr == trace[h]
          args == Decoded(FirstArgs(Replies(tr)[1].out))
      IN IF HasQuery(args)
           THEN Decided(tr) = "getWiki"
         ELSE /\ Decided(tr) = "none"
              /\ Fetching(tr) = {}
              /\ \A r \in DOMAIN tr : tr[r].k = "reply" =>
                   /\ \A i \in PlanCalls(tr) : i < r
                   /\ \E i \in DOMAIN tr : i > r /\ tr[i].k = "call" /\ tr[i].what = "stream"

\* a getWiki proposal with a blank query ended as a plain streamed reply
C16_Witness ==
  \E h \in Handlers :
    /\ ProposesWiki(trace[h])
    /\ FirstArgs(Replies(trace[h])[1].out) = Obj([query |-> Str(<<" ">>)])
    /\ outcome[h] = "stream_ok"

\* the requests of the fetches named what, in order
Requests(tr, what) == SelectSeq(tr, LAMBDA e : e.k = "call" /\ e.what = what)

\* C17: when getWiki is selected and the decoded arguments hold a string lang, the
\* adapter works with that language trimmed: a valid code, with or without blanks
\* around it, is the edition searched, and a blank lang counts as not given (the
\* default edition is searched).
C17_LangTrimmed ==
  \A h \in Handlers :
    ProposesWiki(trace[h]) /\ HasQuery(Decoded(FirstArgs(Replies(trace[h])[1].out))) =>
      LET tr == trace[h]
          args == Decoded(FirstArgs(Replies(tr)[1].out))
          given == Prop(args, "lang")
          code == IF Trim(given.s) = <<>> THEN <<"e", "n">> ELSE toLowerCase(Trim(given.s))
      IN IsString(given) /\ langValid(code) =>
           /\ Requests(tr, "search") # <<>>
           /\ Requests(tr, "search")[1].request.url = <<"search">> \o code \o Trim(Prop(args, "query").s)

\* the planner's first proposal names tool and carries a string that is no JSON text
Unparsable(tr, tool) ==
  /\ Replies(tr) # <<>>
  /\ Proposals(Replies(tr)[1].out) # <<>>
  /\ FirstName(Replies(tr)[1].out) = Str(<<tool>>)
  /\ LET raw == FirstArgs(Replies(tr)[1].out) IN IsString(raw) /\ "json" \notin DOMAIN raw
\* the messages of the tool error frames of a turn
ErrorMessages(tr) ==
  {ToolFrames(tr)[i].message : i \in {j \in DOMAIN ToolFrames(tr) : ToolFrames(tr)[j].status = "error"}}
NoLocation == <<"Please provide a city/location I can find.">>

\* C18: an argument payload that is a string but no JSON text never aborts planning
\* and counts as the empty object: getWeather is selected and runs on {} (it asks for
\* a location without fetching), getISS is selected and fetches the position, and
\* getWiki, which needs a query, gives decision none and the streamed completion.
C18_UnparsableIsEmpty ==
  \A h \in Handlers :
    LET tr == trace[h]
    IN /\ Unparsable(tr, "getWeather") =>
            Decided(tr) = "getWeather" /\ ErrorMessages(tr) = {NoLocation} /\ Fetching(tr) = {}
       /\ Unparsable(tr, "getISS") =>
            Decided(tr) = "getISS" /\ Requests(tr, "iss") # <<>>
       /\ Unparsable(tr, "getWiki") =>
            Decided(tr) = "none" /\ Requests(tr, "stream") # <<>>

\* a forecast proposal with unparsable arguments ended in the tool-failure outcome
C18_Witness ==
  \E h \in Handlers : Unparsable(trace[h], "getWeather") /\ outcome[h] = "tool_fail"

\* the planner's first proposal names getWeather and carries no usable arguments:
\* none at all, null, the empty object, or a string that is no JSON text
ForecastWithoutArgs(tr) ==
  /\ Replies(tr) # <<>>
  /\ Proposals(Replies(tr)[1].out) # <<>>
  /\ FirstName(Replies(tr)[1].out) = Str(<<"getWeather">>)
  /\ LET raw == FirstArgs(Replies(tr)[1].out)
     IN raw \in {Undef, Null, Obj(<<>>)} \/ (IsString(raw) /\ "json" \notin DOMAIN raw)

\* C19: a forecast proposal without usable arguments is still selected; the adapter
\* is invoked, fails with the please-provide-a-location reason without any fetch, and
\* the turn ends in the tool-failure outcome.
C19_ForecastFailsLate ==
  \A h \in Handlers :
    ForecastWithoutArgs(trace[h]) =>
      /\ Decided(trace[h]) = "getWeather"
      /\ Invoked(h)
      /\ ErrorMessages(trace[h]) = {NoLocation}
      /\ Fetching(trace[h]) = {}
      /\ outcome[h] = "tool_fail"

\* the context window of a request: its messages without the system prompt in front
\* and the user text at the end
WindowOf(request) == SubSeq(request.messages, 2, Len(request.messages) - 1)
\* the last n elements of a sequence
LastN(ms, n) == SubSeq(ms, Len(ms) - n + 1, Len(ms))
InferenceRequests(tr) == SelectSeq(tr, LAMBDA e : e.k = "call" /\ e.what \in InferenceCalls)

\* C20: the context window of the planning request and of the completion request is
\* the most recent min(WINDOW, k) user/assistant messages of the log, in the order of
\* the log, k being the number of user/assistant messages in the log; it holds no
\* tool row.  (Read while the log is the one the window was taken from: the turn
\* is waiting for the planner or for the completion.)
C20_WindowIsLastForty ==
  \A h \in Handlers :
    pc[h] \in {"plan", "run"} /\ (\A g \in Handlers : g # h => ~Acted(g)) =>
      LET ua == FilterUA(state.messages)
          k == Len(ua)
          n == IF k < WINDOW THEN k ELSE WINDOW
          requests == InferenceRequests(trace[h])
      IN \A i \in DOMAIN requests :
           /\ WindowOf(requests[i].request) = LastN(ua, n)
           /\ \A j \in DOMAIN WindowOf(requests[i].request) :
                WindowOf(requests[i].request)[j].role \in {"user", "assistant"}

(* ------------------------------- the session --------------------------- *)
\* the handler of the latest frame waits for an inference call and its user row is
\* still the last row of the log
JustAsked(h) ==
  /\ pc[h] \in {"plan", "run"}
  /\ arrived = h
  /\ state.messages # <<>>
  /\ Last(state.messages).role = "user"
  /\ Last(state.messages).content = Text(loc[h].userText)

\* C21: every inference request of a turn is one system instruction, then the
\* user/assistant turns that came before the current user message, then the current
\* user message once, as the final message.
C21_UtteranceOnce ==
  \A h \in Handlers :
    JustAsked(h) =>
      LET requests == InferenceRequests(trace[h])
          prior == FilterUA(Front(state.messages))
          utterance == [role |-> "user", content |-> Text(loc[h].userText)]
      IN \A i \in DOMAIN requests :
           LET ms == requests[i].request.messages
           IN /\ ms[1].role = "system"
              /\ WindowOf(requests[i].request) = prior
              /\ Last(ms) = utterance

\* the handler of frame h handles a reset in this step
Resets(h) == outcome[h] # "reset" /\ outcome'[h] = "reset"

\* C22: a reset, from whatever state, leaves the table and the message list empty and
\* the active model as it was, and is acknowledged by one cleared frame; a reset that
\* follows a reset at once therefore leaves the session as the first did, but for
\* its timestamps.
C22_ResetIdempotent ==
  [][\A h \in Handlers :
       Resets(h) =>
         /\ db' = <<>>
         /\ state'.messages = <<>>
         /\ state'.model = state.model
         /\ trace'[h] = <<Cleared>>
         /\ (db = <<>> /\ state.messages = <<>> =>
               [state' EXCEPT !.createdAt = 0, !.expiresAt = 0]
                 = [state EXCEPT !.createdAt = 0, !.expiresAt = 0])]_vars

\* two resets in a row: the session was reset by both frames of the run
C22_Witness ==
  /\ outcome = [h \in Handlers |-> "reset"]
  /\ db = <<>>
  /\ state.messages = <<>>

\* frames that ask for nothing: not a string, not JSON text, no type, or a chat frame
\* whose text is missing, empty or blank
SilentFrames ==
  {[raw |-> "binary", data |-> Undef], [raw |-> "text", data |-> Undef],
   [raw |-> "json", data |-> Null], [raw |-> "json", data |-> Obj(<<>>)],
   ChatFrame(Undef), ChatFrame(Str(<<>>)), ChatFrame(Str(<<" ">>)),
   ChatFrame(Str(<<" ", "\n", " ">>))}

\* C23: in every reachable state, handling a silent frame changes nothing: the handler
\* returns with the session state (messages, model, createdAt, expiresAt) and the
\* table as they were, having written no row, made no call and sent no frame.
C23_SilentFramesChangeNothing ==
  arrived < FrameBudget =>
    \A frame \in SilentFrames :
      LET c == onMessage(Machine(arrived + 1), frame)
      IN /\ c.m.state = state
         /\ c.m.db = db
         /\ c.m.tr = <<>>
         /\ c.p = "done"

\* a frame that is not a string was handled in a session that holds messages
C23_Witness ==
  /\ outcome[2] = "ignored"
  /\ pc[2] = "done"
  /\ state.messages # <<>>
  /\ trace[2] = <<>>

\* the events a step adds to the trace of handler h
Added(h) == {i \in DOMAIN trace'[h] : i > Len(trace[h])}

\* C24: a model frame with a non-empty identifier changes the active model and the
\* expiry and nothing else (messages and table as they were, no call, no frame), and
\* every inference call started from then on carries the identifier the session holds.
C24_ModelSwitch ==
  [][/\ arrived < FrameBudget =>
          \A id \in {Str(<<"m2">>), Str(<<"m3">>)} :
            LET c == onMessage(Machine(arrived + 1), ModelFrame(id))
            IN /\ c.m.state = [state EXCEPT !.model = id, !.expiresAt = now + DAY]
               /\ c.m.db = db
               /\ c.m.tr = <<>>
               /\ c.p = "done"
     /\ \A h \in Handlers : \A i \in Added(h) :
          trace'[h][i].k = "call" /\ trace'[h][i].what \in InferenceCalls =>
            trace'[h][i].request.model = (IF Truthy(state.model) THEN state.model
                                          ELSE Str(<<DEFAULT_MODEL>>))]_vars

\* after a model frame, a chat turn planned and asked for its completion with the new
\* identifier
C24_Witness ==
  /\ outcome[1] = "model"
  /\ pc[2] = "run"
  /\ Len(InferenceRequests(trace[2])) = 2
  /\ \A i \in 1..2 : InferenceRequests(trace[2])[i].request.model = Str(<<"m2">>)

IsPrefix(s, t) == Len(s) <= Len(t) /\ SubSeq(t, 1, Len(s)) = s

\* C25: a step that is not a reset leaves the persisted messages as they were and only
\* appends: the message list before the step is a prefix of the list after it, and so
\* is the table; a reset replaces both by the empty list.
C25_AppendOnly ==
  [][IF \E h \in Handlers : Resets(h)
       THEN state'.messages = <<>> /\ db' = <<>>
     ELSE IsPrefix(state.messages, state'.messages) /\ IsPrefix(db, db')]_vars

\* a tool turn ended with its four rows in the list
C25_Witness ==
  /\ \E h \in Handlers : outcome[h] = "tool_ok"
  /\ Roles(state.messages) = <<"user", "assistant", "tool", "assistant">>

\* some rows of the table were written in the same millisecond
HasTies(rows) == \E i, j \in DOMAIN rows : i < j /\ rows[i].ts = rows[j].ts

\* C26: when onConnect reloads the messages from a table in which rows share a
\* timestamp, the reloaded list is the table in insertion order.
C26_TiesKeepInsertionOrder ==
  lastReady.sent /\ HasTies(db) => lastReady.messages = db

\* C27: the expiry is never before the creation time; every step that changes the
\* session state (user message, model switch, tool row, assistant row, reset, reload)
\* sets the expiry to the time of the step plus DAY, and the expiry never decreases.
C27_RollingExpiry ==
  [][/\ state.expiresAt >= state.createdAt
     /\ state'.expiresAt >= state'.createdAt
     /\ state' # state => state'.expiresAt = now + DAY
     /\ state'.expiresAt >= state.expiresAt]_vars

\* a message was appended after the clock advanced: the expiry moved on, the creation
\* time did not
C27_Witness ==
  /\ state.messages # <<>>
  /\ state.createdAt = 0
  /\ state.expiresAt = MaxClock + DAY
  /\ MaxClock > 0

\* C28: within one turn every stage is attempted at most once: the planning call, the
\* completion call and each kind of adapter fetch (geocoding, forecast, title search,
\* summary, position) appear at most once among the calls of the turn, whether the
\* attempt failed or not.
C28_NoRetry ==
  \A h \in Handlers : \A what \in InferenceCalls \cup AdapterCalls :
    Len(Requests(trace[h], what)) <= 1

\* a turn whose summary fetch failed after its title search ended in the tool-failure
\* outcome, each fetch made once
C28_Witness ==
  \E h \in Handlers :
    /\ outcome[h] = "tool_fail"
    /\ Len(Requests(trace[h], "search")) = 1
    /\ Len(Requests(trace[h], "summary")) = 1
    /\ Len(Requests(trace[h], "plan")) = 1

\* the done frames of getWeather among the events of one handler
WeatherDone(tr) ==
  SelectSeq(tr, LAMBDA e : e.k = "frame" /\ e.type = "tool" /\ e.status = "done"
                           /\ e.tool = "getWeather")

\* the piece of a text that follows the given piece, "none" when the piece is not in it
Shown(text, piece) ==
  IF \E i \in 1..(Len(text) - 1) : text[i] = piece
    THEN text[(CHOOSE i \in 1..(Len(text) - 1) : text[i] = piece) + 1]
    ELSE "none"

\* the finite values of one field among the first seven of the given day records
FiniteOf(days, field) ==
  {days[i].f[field].n : i \in {x \in DOMAIN days : x <= 7 /\ days[x].f[field].t = "number"}}

\* C29: the summary of a successful forecast with n day records uses the first min(7, n)
\* records only: the high of the headline is the greatest finite maximum, the low the least
\* finite minimum and the rain chance the greatest finite probability among them, a bound
\* without a finite value is left out of the headline, and with n = 0 the summary is the
\* one sentence that no daily forecast was found.
C29_FirstSevenDays ==
  \A h \in Handlers : WeatherDone(trace[h]) # <<>> =>
    LET days == WeatherDone(trace[h])[1].result.f.daily.a
        text == Last(DeltaTexts(trace[h]))
        his == FiniteOf(days, "tMax")
        los == FiniteOf(days, "tMin")
        pops == FiniteOf(days, "pop")
        low == IF Shown(text, " and lows dip to ~") # "none"
                 THEN Shown(text, " and lows dip to ~") ELSE Shown(text, ", lows dip to ~")
        rain == IF Shown(text, "Rain is likely (peak chance ~") # "none"
                  THEN Shown(text, "Rain is likely (peak chance ~")
                  ELSE Shown(text, "Some showers possible (peak ~")
    IN IF days = <<>>
         THEN /\ text[1] = "I couldn't find a daily forecast for "
              /\ text[Len(text)] = "."
              /\ \A i \in DOMAIN text : text[i] # " "
         ELSE /\ text[1] = "In "
              /\ Shown(text, ", highs reach ~")
                   = IF his = {} THEN "none" ELSE ToString(Round(Max(his)))
              /\ low = IF los = {} THEN "none" ELSE ToString(Round(Min(los)))
              /\ rain = IF pops = {} \/ Max(pops \cup {0}) < 400 THEN "none"
                        ELSE ToString(Round(Max(pops)))
              /\ (rain = "none") = (\E i \in DOMAIN text : text[i] = "Low rain risk overall.")

\* a forecast of more than seven days, the first of them without finite temperatures,
\* was summarised
C29_Witness ==
  \E h \in Handlers :
    /\ WeatherDone(trace[h]) # <<>>
    /\ LET days == WeatherDone(trace[h])[1].result.f.daily.a
       IN /\ Len(days) > 7
          /\ days[1].f.tMax.t # "number"
          /\ FiniteOf(days, "tMax") # {}
    /\ outcome[h] = "tool_ok"

\* the clothing sentences of a forecast summary
HeatAdvice == "It'll feel hot - dress light and use sunscreen."
LightAdvice == "Warm and mostly dry - shorts and light layers are fine."
WarmAdvice == "Chilly at times - bring warm layers (and gloves/hat if you get cold easily)."
LayerAdvice == "Temps swing through the day - pack layers."
MildAdvice == "Mild, steady temps - simple layers should be fine."
ClothingAdvice == {HeatAdvice, LightAdvice, WarmAdvice, LayerAdvice, MildAdvice}

\* the sentence the decision order of the claim picks, for a high hi and a low lo in
\* tenths of a degree (his, los: the finite values they were taken from) and a rain
\* chance in tenths of a percent
AdviceFor(his, hi, los, lo, rain) ==
  IF his # {} /\ hi >= 300 THEN {HeatAdvice}
  ELSE IF his # {} /\ hi >= 240 /\ rain < 400 THEN {LightAdvice}
  ELSE IF los # {} /\ lo <= 50 THEN {WarmAdvice}
  ELSE IF his # {} /\ los # {} THEN (IF hi - lo >= 100 THEN {LayerAdvice} ELSE {MildAdvice})
  ELSE {}

\* the clothing sentences of the summary of handler h agree with the decision order,
\* the bounds taken rounded or as they are
AdviceAgrees(h, rounded) ==
  LET days == WeatherDone(trace[h])[1].result.f.daily.a
      text == Last(DeltaTexts(trace[h]))
      his == FiniteOf(days, "tMax")
      los == FiniteOf(days, "tMin")
      pops == FiniteOf(days, "pop")
      hi == IF his = {} THEN 0 ELSE IF rounded THEN 10 * Round(Max(his)) ELSE Max(his)
      lo == IF los = {} THEN 0 ELSE IF rounded THEN 10 * Round(Min(los)) ELSE Min(los)
      rain == Max(pops \cup {-10})
  IN /\ {text[i] : i \in DOMAIN text} \cap ClothingAdvice = AdviceFor(his, hi, los, lo, rain)
     /\ Cardinality({i \in DOMAIN text : text[i] \in ClothingAdvice}) <= 1

\* C30 as stated: the clothing sentence of a forecast summary follows the decision order
\* (high >= 30 heat; else high >= 24 and rain chance < 40 light layers; else low <= 5
\* warm layers; else, both bounds known, range >= 10 layering and a smaller range mild),
\* the high and the low being the greatest maximum and the least minimum of the days used.
C30_Original ==
  \A h \in Handlers :
    WeatherDone(trace[h]) # <<>> /\ WeatherDone(trace[h])[1].result.f.daily.a # <<>>
      => AdviceAgrees(h, FALSE)

\* C30 amended: the clothing sentence follows the decision order applied to the rounded
\* high and low of the headline (the range is the difference of the rounded bounds) and to
\* the unrounded rain chance; at most one clothing sentence is rendered and an earlier
\* rule wins over a later one.
C30_ClothingOrder ==
  \A h \in Handlers :
    WeatherDone(trace[h]) # <<>> /\ WeatherDone(trace[h])[1].result.f.daily.a # <<>>
      => AdviceAgrees(h, TRUE)

\* a forecast whose rounded high is at least 30 and whose low is at most 5 was summarised:
\* the first and the third rule both apply
C30_Witness ==
  \E h \in Handlers :
    /\ WeatherDone(trace[h]) # <<>>
    /\ LET days == WeatherDone(trace[h])[1].result.f.daily.a
       IN /\ FiniteOf(days, "tMax") # {} /\ Round(Max(FiniteOf(days, "tMax"))) >= 30
          /\ FiniteOf(days, "tMin") # {} /\ Round(Min(FiniteOf(days, "tMin"))) <= 5
    /\ \E i \in DOMAIN Last(DeltaTexts(trace[h])) : Last(DeltaTexts(trace[h]))[i] = HeatAdvice

\* the rain sentences and the freezing warning of a forecast summary
RainLikely == "Rain is likely (peak chance ~"
Showers == "Some showers possible (peak ~"
LowRisk == "Low rain risk overall."
FreezingWarning == "Freezing conditions possible with precipitation - use winter shoes/boots."

\* the summary of handler h has one rain sentence, chosen by the peak rain chance, and
\* ends with the freezing warning exactly when the low (rounded or as it is) is at most
\* zero and the peak rain chance at least 50
RainAgrees(h, rounded) ==
  LET days == WeatherDone(trace[h])[1].result.f.daily.a
      text == Last(DeltaTexts(trace[h]))
      los == FiniteOf(days, "tMin")
      lo == IF los = {} THEN 0 ELSE IF rounded THEN 10 * Round(Min(los)) ELSE Min(los)
      p == Max(FiniteOf(days, "pop") \cup {-10})
      warn == los # {} /\ lo <= 0 /\ p >= 500
  IN /\ Cardinality({i \in DOMAIN text : text[i] \in {RainLikely, Showers, LowRisk}}) = 1
     /\ \E i \in DOMAIN text :
          text[i] = IF p >= 700 THEN RainLikely ELSE IF p >= 400 THEN Showers ELSE LowRisk
     /\ {i \in DOMAIN text : text[i] = FreezingWarning} = IF warn THEN {Len(text)} ELSE {}

\* C31 as stated: every summary of a forecast with at least one day has exactly one rain
\* sentence, chosen by the peak rain chance p alone (p >= 70 likely, 40 <= p < 70 showers,
\* p < 40 or no finite chance low risk), and the freezing warning is its last sentence
\* exactly when the low, the least minimum of the days used, is at most 0 and p >= 50.
C31_Original ==
  \A h \in Handlers :
    WeatherDone(trace[h]) # <<>> /\ WeatherDone(trace[h])[1].result.f.daily.a # <<>>
      => RainAgrees(h, FALSE)

\* C31 amended: as stated, with the freezing warning decided by the rounded low of the
\* headline and the unrounded peak rain chance.
C31_RainAndFreezing ==
  \A h \in Handlers :
    WeatherDone(trace[h]) # <<>> /\ WeatherDone(trace[h])[1].result.f.daily.a # <<>>
      => RainAgrees(h, TRUE)

\* a forecast with a low below zero and a peak rain chance of at least 70 was summarised
\* with the rain-likely sentence and the freezing warning
C31_Witness ==
  \E h \in Handlers :
    /\ WeatherDone(trace[h]) # <<>>
    /\ LET days == WeatherDone(trace[h])[1].result.f.daily.a
           text == Last(DeltaTexts(trace[h]))
       IN /\ FiniteOf(days, "tMin") # {} /\ Min(FiniteOf(days, "tMin")) < 0
          /\ Max(FiniteOf(days, "pop") \cup {-10}) >= 700
          /\ text[Len(text)] = FreezingWarning
          /\ \E i \in DOMAIN text : text[i] = RainLikely

\* the done frames of getWiki among the events of one handler
WikiDone(tr) ==
  SelectSeq(tr, LAMBDA e : e.k = "frame" /\ e.type = "tool" /\ e.status = "done"
                           /\ e.tool = "getWiki")

\* the summary of handler h without its title and dash
SnippetOf(h) ==
  LET text == Last(DeltaTexts(trace[h]))
      title == WikiDone(trace[h])[1].result.f.title.s
  IN SubSeq(text, Len(title) + 2, Len(text))

\* the summary of handler h starts with the non-empty title of the result and a dash
TitleAndDash(h) ==
  LET text == Last(DeltaTexts(trace[h]))
      title == WikiDone(trace[h])[1].result.f.title.s
  IN /\ title # <<>>
     /\ Len(text) > Len(title)
     /\ SubSeq(text, 1, Len(title)) = title
     /\ text[Len(title) + 1] = " - "

\* the trimmed extract of the result handler h got from getWiki
ExtractOf(h) == Trim(WikiDone(trace[h])[1].result.f.extract.s)

\* C32 as stated: the summary of an encyclopedia success is the non-empty title, a dash and
\* a snippet; a text of at most 480 characters is the snippet in full, without ellipsis,
\* and a longer text gives its first 480 characters followed by the ellipsis.
C32_Original ==
  \A h \in Handlers : WikiDone(trace[h]) # <<>> /\ ExtractOf(h) # <<>> =>
    /\ TitleAndDash(h)
    /\ SnippetOf(h) = IF Len(ExtractOf(h)) <= 480 THEN ExtractOf(h)
                      ELSE SubSeq(ExtractOf(h), 1, 480) \o <<"...">>

\* C32 amended: for an encyclopedia success whose extract is not blank the summary is the
\* non-empty title, a dash and a snippet; a trimmed extract of at most 480 characters is
\* the snippet in full, without ellipsis, and a longer one gives its first 480 characters
\* up to the last of them that is not white space, followed by the ellipsis.
C32_SnippetBoundary ==
  \A h \in Handlers : WikiDone(trace[h]) # <<>> /\ ExtractOf(h) # <<>> =>
    LET t == ExtractOf(h)
        snippet == SnippetOf(h)
        kept == Max({i \in 1..480 : i <= Len(t) /\ ~IsSpace(t[i])})
    IN /\ TitleAndDash(h)
       /\ Len(t) <= 480 => snippet = t /\ snippet[Len(snippet)] # "..."
       /\ Len(t) > 480 => /\ Len(snippet) = kept + 1
                          /\ snippet[kept + 1] = "..."
                          /\ \A i \in 1..kept : snippet[i] = t[i]

\* an extract of more than 480 characters whose 480th character is a blank was summarised
\* and its summary ends with the ellipsis
C32_Witness ==
  \E h \in Handlers :
    /\ WikiDone(trace[h]) # <<>>
    /\ Len(ExtractOf(h)) > 480
    /\ IsSpace(ExtractOf(h)[480])
    /\ Last(Last(DeltaTexts(trace[h]))) = "..."
    /\ outcome[h] = "tool_ok"

\* what the fetches of one kind settled with, among the events of one handler
Settlements(tr, what) ==
  SelectSeq(tr, LAMBDA e : e.k = "got" /\ e.what = what)

\* the search fetch threw, was not a success, did not parse or named no title
SearchGaveNothing(r) ==
  \/ r.kind = "throw"
  \/ r.status < 200 \/ r.status > 299
  \/ ~r.parses
  \/ r.body.t # "array" \/ Len(r.body.a) < 2 \/ r.body.a[2].t # "array" \/ r.body.a[2].a = <<>>

\* C33: the title search of the encyclopedia adapter never causes a failure: when it
\* throws, is not a success or names no title, the summary is still fetched, for the raw
\* query; the result is decided by the summary fetch alone, where a 404 gives a not-found
\* reason, another HTTP error a different reason, and an empty extract a failure although
\* the page exists.
C33_SearchNeverFails ==
  \A h \in Handlers :
    LET searched == Settlements(trace[h], "search")
        fetched == Settlements(trace[h], "summary")
        searches == Requests(trace[h], "search")
        summaries == Requests(trace[h], "summary")
    IN /\ searched # <<>> =>
            /\ Len(summaries) = 1
            /\ SearchGaveNothing(searched[1].r)
                 => summaries[1].request.url = <<"summary">> \o Tail(searches[1].request.url)
            /\ fetched = <<>> => ErrorMessages(trace[h]) = {} /\ pc[h] = "summary"
       /\ fetched # <<>> =>
            LET r == fetched[1].r
                extract == IF r.kind = "http" /\ r.parses /\ r.body.t = "object"
                                /\ "extract" \in DOMAIN r.body.f
                             THEN r.body.f.extract ELSE Undef
            IN /\ searched # <<>>
               /\ r.kind = "http" /\ r.status = 404
                    => ErrorMessages(trace[h]) = {<<"No page found.">>}
               /\ r.kind = "http" /\ r.status # 404 /\ (r.status < 200 \/ r.status > 299)
                    => /\ ErrorMessages(trace[h]) = {<<"Summary failed (", ToString(r.status), ")">>}
                       /\ <<"No page found.">> \notin ErrorMessages(trace[h])
               /\ r.kind = "http" /\ r.status = 200 /\ r.parses
                    => IF extract.t = "string" /\ extract.s # <<>>
                         THEN ErrorMessages(trace[h]) = {} /\ outcome[h] = "tool_ok"
                         ELSE ErrorMessages(trace[h]) = {<<"No summary available.">>}
                              /\ outcome[h] = "tool_fail"

\* a turn whose title search threw went on to the summary fetch and ended well
C33_Witness ==
  \E h \in Handlers :
    /\ Settlements(trace[h], "search") # <<>>
    /\ Settlements(trace[h], "search")[1].r.kind = "throw"
    /\ Settlements(trace[h], "summary") # <<>>
    /\ outcome[h] = "tool_ok"

\* the language the first proposal of the turn hands to getWiki
GivenLang(tr) == Prop(Decoded(FirstArgs(Replies(tr)[1].out)), "lang")

\* the turn of handler h called getWiki with a query and a language code that is given
\* and does not match two letters with an optional region of two letters
BadLang(h) ==
  /\ ProposesWiki(trace[h])
  /\ HasQuery(Decoded(FirstArgs(Replies(trace[h])[1].out)))
  /\ Invoked(h)
  /\ Truthy(GivenLang(trace[h]))
  /\ ~(IsString(GivenLang(trace[h])) /\ langValid(GivenLang(trace[h]).s))

\* getWiki answered handler h with the validation failure, without any fetch
Refused(h) ==
  /\ \E m \in ErrorMessages(trace[h]) : m[1] = "Invalid language: "
  /\ outcome[h] = "tool_fail"
  /\ Fetching(trace[h]) = {}

\* C34: an encyclopedia call whose language code does not match the pattern of two
\* letters with an optional region fails at once with a validation failure, before any
\* request (title search or summary fetch) is issued.
C34_BadLangRefused ==
  \A h \in Handlers : BadLang(h) => Refused(h)

\* C35: after a reset the log holds no row of a turn that started before it: a turn that
\* was suspended in a planner, adapter or completion call when the reset arrived appends
\* nothing to the cleared log, so every assistant or tool row of the table and of the
\* session state has the user row of its turn before it.
C35_NoRowsOfClearedTurns ==
  /\ \A i \in DOMAIN db :
       db[i].role # "user" => \E j \in 1..(i - 1) : db[j].role = "user"
  /\ \A i \in DOMAIN state.messages :
       state.messages[i].role # "user" => \E j \in 1..(i - 1) : state.messages[j].role = "user"

\* C36: the message list of the session state equals the rows of the message table in
\* insertion order, under every interleaving of connect, chat, reset and model events;
\* a connect that reloads the rows leaves no row duplicated, missing or out of place.
\* (A row insert and its state update are one step here, and a session that has not yet
\* loaded its rows holds none.)
C36_StateIsTheTable ==
  state.messages # <<>> => state.messages = db

\* the assistant rows a handler persisted, in order
AssistantRows(tr) == SelectSeq(tr, LAMBDA e : e.k = "row" /\ e.role = "assistant")

\* the texts of the delta frames among the events i.. of tr that come after k - 1 done
\* frames and before the k-th, concatenated; seen is the number of done frames before i
RECURSIVE ReplyText(_, _, _, _)
ReplyText(tr, i, seen, k) ==
  IF i > Len(tr) \/ seen >= k THEN <<>>
  ELSE IF tr[i] = Done THEN ReplyText(tr, i + 1, seen + 1, k)
  ELSE (IF seen = k - 1 /\ tr[i].k = "frame" /\ tr[i].type = "delta" THEN tr[i].text ELSE <<>>)
         \o ReplyText(tr, i + 1, seen, k)

\* C37: for every assistant row persisted during a turn, the texts of the delta frames of
\* that reply (after the previous done frame and before its own) concatenate to exactly
\* the persisted content, on every path: acknowledgement, apology, tool summary, completed
\* stream, stream error placeholder and an inference response that is no stream.
C37_DeltasArePersisted ==
  \A h \in Handlers : \A k \in DOMAIN AssistantRows(trace[h]) :
    DoneCount(trace[h]) >= k =>
      ReplyText(trace[h], 1, 0, k) = AssistantRows(trace[h])[k].content.text

\* the user and assistant bubbles among chat messages
Bubbles(messages) == SelectSeq(messages, LAMBDA m : m.role \in {"user", "assistant"})

\* the client that sent the chat frame of handler h (its text is that of the user row)
\* and received the frames of the turn so far
ClientOf(h) == onmessage(send(NoMessages, Rows(trace[h])[1].content.text), trace[h])

\* C38: for a client that stays connected during a turn, the user and assistant bubbles
\* it builds from the delta, done and tool frames are, one to one and with the same text,
\* the user and assistant rows the turn persisted, that is what the client would restore
\* from a ready frame; this for each of the three tools, and the two assistant replies of
\* a tool turn (acknowledgement, then summary or apology) are never merged into one
\* bubble.  Stated for the turns that ran a tool.
C38_LiveEqualsReplay ==
  \A h \in Handlers :
    outcome[h] \in {"tool_ok", "tool_fail"} =>
      Bubbles(ClientOf(h).messages) = Bubbles(onReady(Rows(trace[h])))

\* C39: the client sends no chat frame while a turn it started is in progress: from the
\* send to the terminal outcome of the turn the input stays disabled (pending), also in
\* turns that run a tool after the acknowledgement.
C39_PendingDuringTurn ==
  \A h \in Handlers : InTurn(h) => ClientOf(h).pending

====
